---- MODULE Spec2Model ----
(***************************************************************************)
(* Worker-subprocess orchestration of the Pi extension playground:         *)
(*   - subprocess-env.ts   (EnvironmentBuilder)                            *)
(*   - agent-team.ts       (Dispatcher topology)                           *)
(*   - agent-chain.ts      (Pipeline topology)                             *)
(*   - subagent-widget.ts  (Pool topology)                                 *)
(* Each extension owns its own closure state, so each has its own          *)
(* specification over the shared variable tuple; the variables of the      *)
(* other extensions keep their initial values.                             *)
(***************************************************************************)
EXTENDS Integers, Sequences, FiniteSets, TLC

VARIABLES
    topology,      \* which extension the behaviour is about
    procs,         \* every subprocess spawned so far, in spawn order
    spawnCalls,    \* number of calls of child_process.spawn made so far
    last,          \* the handler that ran in the last step, with its result
    disk,          \* session files that exist in the session directory
    ctxModel,      \* ctx.model of the host: the model the user has selected
    \* ---- agent-team.ts
    teamGen,       \* number of activateTeam calls so far (0: before session_start)
    activeTeamName,
    agentStates,   \* AgentState objects, by <<name, generation>>
    \* ---- agent-chain.ts
    activeChain,   \* index into Chains of the active ChainDef, 0 for null
    stepStates,    \* the StepState array of the active chain
    pendingReset,
    agentSessions, \* agentSessions: key -> session file present (TRUE) or null
    run,           \* the latest runChain invocation
    chainGen,      \* number of activateChain calls so far (0: before session_start)
    \* ---- subagent-widget.ts
    agents,        \* the agents map: id -> index of its SubState in subStates, 0 if absent
    nextId,
    subStates,     \* every SubState object created so far, in creation order
    poolGen,       \* number of /subclear and session_start resets so far
    \* ---- subprocess-env.ts, as exercised by a caller
    envModel,      \* the model string given to buildSubprocessEnv
    envExtras,     \* the agentEnv argument
    parentEnv,     \* the source environment
    builtEnv,      \* the environment buildSubprocessEnv returned
    \* ---- agent-loader.ts, as exercised by a caller
    dirFiles,      \* the persona directory: its files in readdirSync order
    returned,      \* what the scanAgentDirectory call of the last step returned
    \* ---- the stdout and close handlers of one worker subprocess
    parser,        \* whose handlers they are: "dispatcher" or "pool"
    stdout,        \* everything the worker writes to stdout during the run
    sent,          \* number of its characters delivered in data events so far
    buffer,
    textChunks,
    toolCount,
    stderrCount,   \* number of data events of stderr so far
    \* ---- tilldone.ts
    taskObjs,      \* every Task object created so far, in creation order
    arrays,        \* every Task[] array created so far: sequences of indices into taskObjs
    tasks,         \* the array the variable tasks refers to: an index into arrays
    taskNextId,    \* nextId of tilldone.ts
    listTitle,
    listDescription,
    nudgedThisCycle,
    nudges,        \* tilldone-nudge messages sent since the last input event
    entries        \* the tilldone tool results on the session branch, oldest first

vars == <<topology, procs, spawnCalls, last, disk, ctxModel,
          teamGen, activeTeamName, agentStates,
          activeChain, stepStates, pendingReset, agentSessions, run, chainGen,
          agents, nextId, subStates, poolGen,
          envModel, envExtras, parentEnv, builtEnv,
          dirFiles, returned,
          parser, stdout, sent, buffer, textChunks, toolCount, stderrCount,
          taskObjs, arrays, tasks, taskNextId, listTitle, listDescription,
          nudgedThisCycle, nudges, entries>>

commonVars == <<procs, spawnCalls, last, disk>>
teamVars == <<teamGen, activeTeamName, agentStates>>
chainVars == <<activeChain, stepStates, pendingReset, agentSessions, run, chainGen>>
poolVars == <<agents, nextId, subStates, poolGen>>
envVars == <<envModel, envExtras, parentEnv, builtEnv>>
loaderVars == <<dirFiles, returned>>
streamVars == <<parser, stdout, sent, buffer, textChunks, toolCount, stderrCount>>
tillVars == <<taskObjs, arrays, tasks, taskNextId, listTitle, listDescription,
              nudgedThisCycle, nudges, entries>>

(***************************************************************************)
(* Bounds of the model.                                                    *)
(***************************************************************************)
MaxTeamOps == 4       \* agent-team.ts: spawn() calls plus roster activations
MaxChainOps == 5      \* agent-chain.ts: spawn() calls plus chain activations
MaxRuns == 2          \* agent-chain.ts: run_chain invocations
MaxPoolOps == 3       \* subagent-widget.ts: spawn() calls plus pool resets
MaxLines == 2         \* streaming parse: lines a worker writes to stdout
MaxStderr == 1        \* streaming parse: chunks a worker writes to stderr
MaxArrays == 4        \* tilldone: Task[] arrays (the list and its snapshots) allocated

(***************************************************************************)
(* Values.                                                                 *)
(***************************************************************************)
Null == "<null>"

\* toLowerCase on the strings the model uses
ToLower(s) ==
    CASE s = "Anthropic" -> "anthropic"
      [] s = "Builder" -> "builder"
      [] OTHER -> s

\* A model string is the "/"-join of its segments; <<>> is the empty string.
DefaultModel == <<"openrouter", "google", "gemini-3-flash-preview">>

\* ctx.model: Null when the host has no model selected
CtxModels == {Null, <<"anthropic", "claude">>}

ModelString(m) == IF m = Null THEN DefaultModel ELSE m

(***************************************************************************)
(* subprocess-env.ts                                                       *)
(***************************************************************************)
PROVIDER_KEYS == {"anthropic", "openai", "google", "openrouter"}

PROVIDER_KEY_MAP(p) ==
    CASE p = "anthropic" -> "ANTHROPIC_API_KEY"
      [] p = "openai" -> "OPENAI_API_KEY"
      [] p = "google" -> "GEMINI_API_KEY"
      [] p = "openrouter" -> "OPENROUTER_API_KEY"

ALL_API_KEYS == {PROVIDER_KEY_MAP(p) : p \in PROVIDER_KEYS}

SYSTEM_VARS == {"PATH", "HOME", "TERM", "LANG", "SHELL", "USER", "TMPDIR"}

\* model.indexOf("/") === -1, or !model: no provider
ExtractProvider(model) ==
    IF Len(model) < 2 THEN Null ELSE ToLower(model[1])

\* an unknown provider falls back to a fixed credential variable
GetProviderKeyNameDefaulting(provider) ==
    IF provider \in PROVIDER_KEYS THEN PROVIDER_KEY_MAP(provider) ELSE "ANTHROPIC_API_KEY"

GetProviderKeyName(provider) ==
    IF provider \in PROVIDER_KEYS THEN PROVIDER_KEY_MAP(provider) ELSE Null

\* The env field is a sequence of tokens: variable names and the separators
\* the pattern /[,\s]+/ splits on. <<>> is undefined or the empty string.
Separators == {",", " "}

\* only the first entry of the field is read
ParseAgentEnvFieldFirst(envField) ==
    SelectSeq(envField, LAMBDA t : t \notin Separators /\ t = envField[1])

ParseAgentEnvField(envField) ==
    SelectSeq(envField, LAMBDA t : t \notin Separators)

Range(s) == {s[i] : i \in DOMAIN s}

\* if (parentEnv[key]): the variable is set and its value is not ""
Truthy(env, key) == key \in DOMAIN env /\ env[key] # ""

\* the API keys buildSubprocessEnv step 2 adds
CredentialKeysOfAllProviders(model, env) ==
    {k \in ALL_API_KEYS : k \in DOMAIN env /\ env[k] # ""}

CredentialKeys(model, env) ==
    LET provider == ExtractProvider(model)
        keyName == IF provider # Null /\ provider # ""
                   THEN GetProviderKeyName(provider) ELSE Null
    IN  IF keyName # Null /\ Truthy(env, keyName) THEN {keyName} ELSE {}

BuildSubprocessEnv(model, agentEnv, env) ==
    LET sys == {k \in SYSTEM_VARS : Truthy(env, k)}
        extras == {k \in Range(ParseAgentEnvField(agentEnv)) : Truthy(env, k)}
    IN  [k \in sys \cup CredentialKeys(model, env) \cup extras |-> env[k]]

\* { ...process.env }
CopyEnv(env) == env

\* A message that lists names: which message it is, the name it quotes and
\* the names it lists.  NoOutput stands for null and for every other text.
NoOutput == [kind |-> "", name |-> "", listed |-> {}]

\* An output text is the sequence of its words.  toLowerCase of a word, for
\* the /i flag of the patterns:
LowerWord(w) ==
    CASE w = "Unauthorized" -> "unauthorized"
      [] w = "Authentication" -> "authentication"
      [] w = "API" -> "api"
      [] w = "No" -> "no"
      [] w = "Permission" -> "permission"
      [] w = "Access" -> "access"
      [] w = "EACCES" -> "eacces"
      [] OTHER -> w

\* CREDENTIAL_PATTERNS.some((p) => p.test(output)): \b401\b and \b403\b match
\* the number as a word of its own, /EACCES/ has no /i flag, the others match
\* their words in a row in any capitalisation
CREDENTIAL_PATTERNS(output) ==
    LET word(i) == LowerWord(output[i])
        pair(a, B) == \E i \in 1 .. Len(output) - 1 : word(i) = a /\ word(i + 1) \in B
        Missing == {"not", "missing", "invalid", "required"}
    IN  \/ \E i \in DOMAIN output : output[i] \in {"401", "403"}
        \/ \E i \in DOMAIN output : word(i) = "unauthorized"
        \/ pair("authentication", {"failed"})
        \/ \E i \in 1 .. Len(output) - 2 :
                word(i) = "api" /\ word(i + 1) = "key" /\ word(i + 2) \in Missing
        \/ \E i \in 1 .. Len(output) - 2 :
                word(i) = "no" /\ word(i + 1) = "api" /\ word(i + 2) = "key"
        \/ pair("access", {"denied"})
        \/ pair("permission", {"denied"})
        \/ \E i \in DOMAIN output : output[i] = "EACCES"
        \/ pair("token", {"expired", "invalid", "missing", "required"})
        \/ pair("credential", Missing) \/ pair("credentials", Missing)

\* every key of the environment is listed
DescribeEnvOfAllKeys(env) == DOMAIN env

\* Object.keys(env).filter((k) => !SYSTEM_VARS.includes(k))
DescribeEnv(env) == {k \in DOMAIN env : k \notin SYSTEM_VARS}

\* the diagnostic, or NoOutput for null
DetectCredentialFailure(output, agentName, env) ==
    IF output = <<>> THEN NoOutput
    ELSE IF ~CREDENTIAL_PATTERNS(output) THEN NoOutput
    ELSE LET passedKeys == DescribeEnv(env)
         IN  [kind |-> "diagnostic", name |-> agentName,
              listed |-> IF passedKeys # {} THEN passedKeys ELSE {"no API keys"}]

\* process.env of the orchestrator in the topology specifications
OrchestratorEnv ==
    [k \in {"PATH", "HOME", "ANTHROPIC_API_KEY", "OPENAI_API_KEY",
            "OPENROUTER_API_KEY", "AWS_SECRET_ACCESS_KEY"} |->
        CASE k = "PATH" -> "/usr/bin"
          [] k = "HOME" -> "/home/u"
          [] k = "ANTHROPIC_API_KEY" -> "sk-ant"
          [] k = "OPENAI_API_KEY" -> "sk-openai"
          [] k = "OPENROUTER_API_KEY" -> "sk-or"
          [] k = "AWS_SECRET_ACCESS_KEY" -> "aws"]

(***************************************************************************)
(* Subprocesses, as the three extensions see them.                         *)
(*   phase "alive"     : spawned, running, not yet exited                  *)
(*   phase "spawnfail" : the spawn failed asynchronously (ENOENT, EACCES); *)
(*                       the error event is still to be delivered          *)
(*   phase "errored"   : the error event was delivered; Node still emits   *)
(*                       close for the same ChildProcess afterwards        *)
(*   phase "closed"    : the close event was delivered                     *)
(***************************************************************************)
Tasks == {"fix the bug", "task with NUL byte"}

\* child_process.spawn throws synchronously for an argument the platform
\* rejects (a string with a null byte, an argument list that is too long)
SpawnThrows(task) == task = "task with NUL byte"

\* exit codes a close event carries: a code, or null for a signal
ExitCodes == {"0", "1", "null"}
SpawnFailCode == "-2"

\* code ?? 1
CodeOrOne(code) == IF code = "null" THEN "1" ELSE code

Alive(p) == p.phase = "alive"
Pending(p) == p.phase \in {"alive", "spawnfail"}

\* what a worker that exits with `code` has written to stderr by then
WorkerStderr(code) ==
    CASE code = "1" -> <<"HTTP", "401", "Unauthorized">>
      [] code = "0" -> <<"retried", "after", "401">>
      [] OTHER -> <<>>

\* output + "\n" + stderrChunks.join("")
Combined(output, stderr) == <<output>> \o stderr

NoResult == [settled |-> FALSE, exitCode |-> "", output |-> ""]
Result(code, out) == [settled |-> TRUE, exitCode |-> code, output |-> out]

\* resolve() of an already settled promise changes nothing
ResolveDropped(old, new) == old

Resolve(old, new) == IF old.settled THEN old ELSE new

\* `code` is the argument of a close event, `exitCode` the exit code of the
\* result the handler produced
\* `output` is the message an operation produced, if it is one that lists
\* names (null or any other text is NoOutput); `text` is the output text a
\* credential scan was given
NoLast ==
    [op |-> "init", key |-> "", outcome |-> "", proc |-> 0, code |-> "",
     exitCode |-> "", output |-> NoOutput, text |-> <<>>]

(***************************************************************************)
(* agent-team.ts : the Dispatcher                                          *)
(***************************************************************************)
\* allAgentDefs after loadAgents, by lower-cased name
AgentDefs == {"scout", "builder"}

\* teams.yaml: Object.keys(teams) in file order, and the members of each
TeamNames == <<"full", "solo">>

TeamMembers(t) ==
    CASE t = "full" -> {"scout", "Builder"}
      [] t = "solo" -> {"scout", "ghost"}

\* names the primary agent may pass to dispatch_agent
DispatchNames == {"scout", "Builder", "ghost"}

ObjIds == AgentDefs \X (0 .. MaxTeamOps)

\* the model's budget allows one more spawn or activation
TeamBudget == spawnCalls + teamGen < MaxTeamOps

AbsentState == [status |-> "absent", task |-> "", sessionFile |-> FALSE, runCount |-> 0]

\* the AgentState literal of activateTeam
IdleState(hasFile) ==
    [status |-> "idle", task |-> "", sessionFile |-> hasFile, runCount |-> 0]

\* agentStates.get(key) of the active roster
StateOf(key) ==
    IF key \in AgentDefs THEN agentStates[<<key, teamGen>>] ELSE AbsentState

Roster == {a \in AgentDefs : StateOf(a).status # "absent"}

\* displayName(name): the name split at "-", each word capitalised, joined by " "
DisplayName(name) ==
    CASE name = "scout" -> "Scout"
      [] name = "builder" -> "Builder"
      [] OTHER -> name

\* the list after "Available: " taken from every loaded definition
AvailableOfAllDefs == {DisplayName(a) : a \in AgentDefs}

\* Array.from(agentStates.values()).map(s => displayName(s.def.name))
Available == {DisplayName(a) : a \in Roster}

\* the already-running check left out
IsRunningUnchecked(state) == FALSE

\* state.status === "running"
IsRunning(state) == state.status = "running"

\* An AgentState dropped from the map lives on only in the closures of the
\* event handlers of a subprocess that has not closed yet
Captured(o) ==
    \E i \in DOMAIN procs :
        procs[i].agent = o[1] /\ procs[i].gen = o[2] /\ procs[i].phase # "closed"

\* agentStates.clear() and one fresh idle AgentState per member that has a def
ActivateTeam(teamName, files) ==
    LET members == {ToLower(m) : m \in TeamMembers(teamName)} \cap AgentDefs
    IN  /\ activeTeamName' = teamName
        /\ teamGen' = teamGen + 1
        /\ agentStates' = [o \in ObjIds |->
                IF o[2] = teamGen + 1 /\ o[1] \in members
                THEN IdleState(o[1] \in files)
                ELSE IF Captured(o) THEN agentStates[o] ELSE AbsentState]

\* pi.on("session_start"): wipe the session files, loadAgents, activate the first team
TeamSessionStart ==
    /\ topology = "dispatcher"
    /\ TeamBudget
    /\ disk' = {}
    /\ ActivateTeam(TeamNames[1], {})
    /\ last' = [NoLast EXCEPT !.op = "session_start"]
    /\ UNCHANGED <<topology, ctxModel, procs, spawnCalls, chainVars, poolVars, envVars, loaderVars, streamVars, tillVars>>

\* /agents-team: nothing happens without teams or when the dialog is cancelled
AgentsTeam(choice) ==
    /\ topology = "dispatcher"
    /\ \/ /\ teamGen > 0
          /\ TeamBudget
          /\ choice \in Range(TeamNames)
          /\ ActivateTeam(choice, disk)
          /\ last' = [NoLast EXCEPT !.op = "agents-team", !.key = choice, !.outcome = "activated"]
       \/ /\ teamGen = 0 \/ choice = Null
          /\ last' = [NoLast EXCEPT !.op = "agents-team", !.outcome = "none"]
          /\ UNCHANGED teamVars
    /\ UNCHANGED <<topology, ctxModel, procs, spawnCalls, disk, chainVars, poolVars, envVars, loaderVars, streamVars, tillVars>>

\* the subprocess dispatchAgent spawns
TeamProc(key, state, phase) ==
    [agent |-> key, gen |-> teamGen, phase |-> phase, killed |-> FALSE,
     cont |-> state.sessionFile,
     model |-> ModelString(ctxModel),
     env |-> CopyEnv(OrchestratorEnv),
     result |-> NoResult]

\* dispatchAgent, called by dispatch_agent.execute
DispatchAgent(agentName, task, spawnOk) ==
    LET key == ToLower(agentName)
        state == StateOf(key)
    IN
    /\ topology = "dispatcher"
    /\ IF state.status = "absent" THEN
            /\ last' = [NoLast EXCEPT !.op = "dispatch", !.key = key,
                                      !.outcome = "notfound", !.exitCode = "1",
                                      !.output = [kind |-> "not found",
                                                  name |-> agentName,
                                                  listed |-> Available]]
            /\ UNCHANGED <<agentStates, procs, spawnCalls>>
       ELSE IF IsRunning(state) THEN
            /\ last' = [NoLast EXCEPT !.op = "dispatch", !.key = key,
                                      !.outcome = "busy", !.exitCode = "1"]
            /\ UNCHANGED <<agentStates, procs, spawnCalls>>
       ELSE
            /\ TeamBudget
            /\ agentStates' = [agentStates EXCEPT ![<<key, teamGen>>] =
                    [@ EXCEPT !.status = "running", !.task = task,
                              !.runCount = @ + 1]]
            /\ spawnCalls' = spawnCalls + 1
            /\ IF SpawnThrows(task) THEN
                    \* the promise executor throws: dispatchAgent rejects and
                    \* execute's catch turns it into an error result
                    /\ procs' = procs
                    /\ last' = [NoLast EXCEPT !.op = "dispatch", !.key = key,
                                              !.outcome = "threw", !.exitCode = "1"]
               ELSE
                    /\ procs' = Append(procs, TeamProc(key, state,
                                        IF spawnOk THEN "alive" ELSE "spawnfail"))
                    /\ last' = [NoLast EXCEPT !.op = "dispatch", !.key = key,
                                              !.outcome = "spawned",
                                              !.proc = Len(procs) + 1]
    /\ UNCHANGED <<topology, ctxModel, disk, teamGen, activeTeamName, chainVars, poolVars, envVars, loaderVars, streamVars, tillVars>>

\* proc.on("error"): the handler closes over the AgentState of its dispatch
TeamProcError(i) ==
    /\ topology = "dispatcher"
    /\ i \in DOMAIN procs
    /\ procs[i].phase = "spawnfail"
    /\ LET p == procs[i] IN
        /\ agentStates' = [agentStates EXCEPT ![<<p.agent, p.gen>>].status = "error"]
        /\ procs' = [procs EXCEPT ![i].phase = "errored",
                        ![i].result = Resolve(p.result, Result("1", "Error spawning agent"))]
        /\ last' = [NoLast EXCEPT !.op = "error", !.key = p.agent, !.proc = i,
                                  !.exitCode = "1"]
    /\ UNCHANGED <<topology, ctxModel, spawnCalls, disk, teamGen, activeTeamName, chainVars, poolVars, envVars, loaderVars, streamVars, tillVars>>

\* status the close handler sets
StatusForCodeAlwaysDone(code) == "done"

StatusForCode(code) == IF code = "0" THEN "done" ELSE "error"

\* proc.on("close"); a worker that exits with code 0 has written the file
\* named by --session
TeamProcClose(i, code) ==
    /\ topology = "dispatcher"
    /\ i \in DOMAIN procs
    /\ \/ procs[i].phase = "alive" /\ code \in ExitCodes
       \/ procs[i].phase = "errored" /\ code = SpawnFailCode
    /\ LET p == procs[i] IN
        /\ agentStates' = [agentStates EXCEPT ![<<p.agent, p.gen>>] =
                [@ EXCEPT !.status = StatusForCode(code),
                          !.sessionFile = IF code = "0" THEN TRUE ELSE @]]
        /\ procs' = [procs EXCEPT ![i].phase = "closed",
                        ![i].result = Resolve(p.result, Result(CodeOrOne(code), "full"))]
        /\ last' = [NoLast EXCEPT !.op = "close", !.key = p.agent, !.proc = i,
                                  !.code = code,
                                  !.exitCode = procs'[i].result.exitCode,
                                  !.text = Combined("full", WorkerStderr(code))]
        /\ disk' = IF code = "0" THEN disk \cup {p.agent} ELSE disk
    /\ UNCHANGED <<topology, ctxModel, spawnCalls, teamGen, activeTeamName, chainVars, poolVars, envVars, loaderVars, streamVars, tillVars>>

\* the worker binary writes the file named by --session while it runs
TeamProcWritesSession(i) ==
    /\ topology = "dispatcher"
    /\ i \in DOMAIN procs
    /\ Alive(procs[i])
    /\ procs[i].agent \notin disk
    /\ disk' = disk \cup {procs[i].agent}
    /\ last' = [NoLast EXCEPT !.op = "write", !.key = procs[i].agent, !.proc = i]
    /\ UNCHANGED <<topology, ctxModel, procs, spawnCalls, teamVars, chainVars, poolVars, envVars, loaderVars, streamVars, tillVars>>

(***************************************************************************)
(* agent-chain.ts : the Pipeline                                           *)
(***************************************************************************)
\* agent-chain.yaml as parseChainYaml returns it; a prompt is its sequence of
\* literal pieces and placeholders
Chains ==
    << [name |-> "plan-build-review",
        steps |-> << [agent |-> "scout", prompt |-> <<"Plan: ", "$INPUT">>],
                     [agent |-> "Builder", prompt |-> <<"$INPUT", " for ", "$ORIGINAL">>],
                     [agent |-> "scout", prompt |-> <<"Review: ", "$INPUT">>] >>],
       [name |-> "quick",
        steps |-> << [agent |-> "builder", prompt |-> <<"$INPUT">>] >>],
       [name |-> "broken",
        steps |-> << [agent |-> "scout", prompt |-> <<"$INPUT">>],
                     [agent |-> "ghost", prompt |-> <<"$INPUT">>] >>] >>

\* activeChain.steps.map(s => ({ agent: s.agent, status: "pending", ... }))
FreshSteps(c) ==
    [k \in DOMAIN Chains[c].steps |->
        [agent |-> Chains[c].steps[k].agent, status |-> "pending"]]

\* what String.prototype.replace inserts for a match when the replacement is
\* the string `text`: "$$" in it stands for "$"; a text without "$" is
\* inserted as it is
Substitution(text) ==
    CASE text = "costs a$$b" -> "costs a$b"
      [] OTHER -> text

\* pieces.replace(/placeholder/g, text): a template is the sequence of its
\* pieces, a placeholder is a piece of its own
ReplaceAll(pieces, placeholder, text) ==
    [k \in DOMAIN pieces |->
        IF pieces[k] = placeholder THEN Substitution(text) ELSE pieces[k]]

\* step.prompt.replace(/\$INPUT/g, input).replace(/\$ORIGINAL/g, originalPrompt)

ResolvePrompt(prompt, input, original) ==
    ReplaceAll(ReplaceAll(prompt, "$INPUT", input), "$ORIGINAL", original)

\* the prompt templates of the steps of all chains
PromptTemplates ==
    << <<"Plan: ", "$INPUT">>, <<"$INPUT", " for ", "$ORIGINAL">>,
       <<"Review: ", "$INPUT">>, <<"$INPUT">> >>

\* texts of a task or of a step's output: plain ones, one with the "$$" of a
\* replacement pattern, and the two placeholders themselves
PromptTexts == {"fix the bug", "out", "costs a$$b", "$ORIGINAL", "$INPUT"}

\* the resolvedPrompt of one loop iteration of runChain, for template number t
ResolveStep(t, input, original) ==
    /\ topology = "prompt"
    /\ last' = [NoLast EXCEPT !.op = "resolve", !.proc = t, !.key = input,
                              !.outcome = original,
                              !.text = ResolvePrompt(PromptTemplates[t], input, original)]
    /\ UNCHANGED <<topology, ctxModel, procs, spawnCalls, disk>>
    /\ UNCHANGED <<teamVars, chainVars, poolVars, envVars, loaderVars, streamVars, tillVars>>

\* spawn("pi", [..., task]) rejects the argument list
PromptRejected(pieces) == \E k \in DOMAIN pieces : SpawnThrows(pieces[k])

\* what runChain returns: a text, or one of its two error messages
TextOut(t) == [kind |-> "text", step |-> 0, agent |-> "", text |-> t]
NotFoundOut(i, a) == [kind |-> "not-found", step |-> i, agent |-> a, text |-> ""]
StepErrorOut(i, a, t) == [kind |-> "step-error", step |-> i, agent |-> a, text |-> t]

NoRun ==
    [id |-> 0, pc |-> "none", i |-> 0, agent |-> "", task |-> "",
     success |-> FALSE, output |-> TextOut("")]

\* the run is suspended at await runAgent(...) of step i
Awaiting(id, i, agent, task) ==
    [id |-> id, pc |-> "await", i |-> i, agent |-> agent, task |-> task,
     success |-> FALSE, output |-> TextOut("")]

\* runChain returned { output, success, elapsed }
Resolved(r, success, output) ==
    [r EXCEPT !.pc = "resolved", !.success = success, !.output = output]

\* runChain threw: the promise run_chain.execute awaits is rejected
Rejected(r) == [r EXCEPT !.pc = "rejected"]

\* the model's budget allows one more spawn or chain activation
ChainBudget == spawnCalls + chainGen < MaxChainOps

\* activateChain
ActivateChain(c) ==
    /\ activeChain' = c
    /\ stepStates' = FreshSteps(c)
    /\ chainGen' = chainGen + 1

\* pi.on("session_start"): reset, wipe chain-*.json, loadChains, activate chains[0]
ChainSessionStart ==
    /\ topology = "pipeline"
    /\ ChainBudget
    /\ pendingReset' = TRUE
    /\ disk' = {}
    /\ agentSessions' = [a \in AgentDefs |-> FALSE]
    /\ ActivateChain(1)
    /\ last' = [NoLast EXCEPT !.op = "session_start"]
    /\ UNCHANGED <<topology, ctxModel, procs, spawnCalls, run>>
    /\ UNCHANGED <<teamVars, poolVars, envVars, loaderVars, streamVars, tillVars>>

\* /chain: nothing happens without chains or when the dialog is cancelled
ChainSwitch(choice) ==
    /\ topology = "pipeline"
    /\ \/ /\ chainGen > 0
          /\ ChainBudget
          /\ choice \in DOMAIN Chains
          /\ ActivateChain(choice)
          /\ last' = [NoLast EXCEPT !.op = "chain", !.key = Chains[choice].name,
                                    !.outcome = "activated"]
       \/ /\ chainGen = 0 \/ choice = 0
          /\ last' = [NoLast EXCEPT !.op = "chain", !.outcome = "none"]
          /\ UNCHANGED <<activeChain, stepStates, chainGen>>
    /\ UNCHANGED <<topology, ctxModel, procs, spawnCalls, disk, pendingReset,
                   agentSessions, run>>
    /\ UNCHANGED <<teamVars, poolVars, envVars, loaderVars, streamVars, tillVars>>

\* pi.on("before_agent_start"): the deferred reset of the step states
BeforeAgentStart ==
    /\ topology = "pipeline"
    /\ pendingReset /\ activeChain # 0
    /\ pendingReset' = FALSE
    /\ stepStates' = FreshSteps(activeChain)
    /\ last' = [NoLast EXCEPT !.op = "before_agent_start"]
    /\ UNCHANGED <<topology, ctxModel, procs, spawnCalls, disk, activeChain,
                   agentSessions, run, chainGen>>
    /\ UNCHANGED <<teamVars, poolVars, envVars, loaderVars, streamVars, tillVars>>

\* the env field in the frontmatter of the persona files
PersonaEnvField(key) ==
    CASE key = "scout" -> <<"AWS_SECRET_ACCESS_KEY">>
      [] OTHER -> <<>>

\* the AgentDef literal of loadAgentFile: name, description, tools,
\* systemPrompt and file
PersonaDef(key) ==
    [name |-> key, description |-> "", tools |-> "read,grep,find,ls",
     systemPrompt |-> "", file |-> key]

\* agentDef.env: undefined for an object without that property
AgentDefEnv(agentDef) ==
    IF "env" \in DOMAIN agentDef THEN agentDef.env ELSE <<>>

\* the subprocess runAgent spawns
ChainProc(key, rid, i, phase, prompt) ==
    [agent |-> key, run |-> rid, step |-> i, phase |-> phase, killed |-> FALSE,
     prompt |-> prompt,
     cont |-> agentSessions[key],
     model |-> ModelString(ctxModel),
     env |-> BuildSubprocessEnv(ModelString(ctxModel), AgentDefEnv(PersonaDef(key)),
                                OrchestratorEnv),
     result |-> NoResult]

\* One iteration of runChain's loop from its head to the await, a return or a
\* throw: `ss` is the step-state array and `ps` the subprocess list as the
\* code that ran before it in the same turn left them.
ChainIter(r, ss, ps, i, input, spawnOk) ==
    IF activeChain = 0 THEN
        \* activeChain.steps of null
        /\ run' = Rejected(r)
        /\ stepStates' = ss
        /\ procs' = ps
        /\ spawnCalls' = spawnCalls
    ELSE IF i > Len(Chains[activeChain].steps) THEN
        /\ run' = Resolved(r, TRUE, TextOut(input))
        /\ stepStates' = ss
        /\ procs' = ps
        /\ spawnCalls' = spawnCalls
    ELSE IF i > Len(ss) THEN
        \* stepStates[i] is undefined
        /\ run' = Rejected(r)
        /\ stepStates' = ss
        /\ procs' = ps
        /\ spawnCalls' = spawnCalls
    ELSE
        LET step == Chains[activeChain].steps[i]
            key == ToLower(step.agent)
            running == [ss EXCEPT ![i].status = "running"]
            prompt == ResolvePrompt(step.prompt, input, r.task)
        IN  IF key \notin AgentDefs THEN
                /\ stepStates' = [running EXCEPT ![i].status = "error"]
                /\ run' = Resolved(r, FALSE, NotFoundOut(i, step.agent))
                /\ procs' = ps
                /\ spawnCalls' = spawnCalls
            ELSE
                /\ ChainBudget
                /\ stepStates' = running
                /\ spawnCalls' = spawnCalls + 1
                /\ IF PromptRejected(prompt) THEN
                        \* the executor of runAgent's promise throws
                        /\ run' = Rejected(r)
                        /\ procs' = ps
                   ELSE
                        /\ run' = Awaiting(r.id, i, step.agent, r.task)
                        /\ procs' = Append(ps, ChainProc(key, r.id, i,
                                        IF spawnOk THEN "alive" ELSE "spawnfail",
                                        prompt))

\* runChain, called by run_chain.execute; the caller runs one chain at a time
RunChain(task, spawnOk) ==
    /\ topology = "pipeline"
    /\ run.pc # "await"
    /\ run.id < MaxRuns
    /\ LET r == [NoRun EXCEPT !.id = run.id + 1, !.task = task] IN
        IF activeChain = 0 THEN
            /\ run' = Resolved(r, FALSE, TextOut("No chain active"))
            /\ UNCHANGED <<stepStates, procs, spawnCalls>>
        ELSE
            ChainIter(r, FreshSteps(activeChain), procs, 1, task, spawnOk)
    /\ last' = [NoLast EXCEPT !.op = "run_chain", !.outcome = run'.pc]
    /\ UNCHANGED <<topology, ctxModel, disk, activeChain, pendingReset,
                   agentSessions, chainGen>>
    /\ UNCHANGED <<teamVars, poolVars, envVars, loaderVars, streamVars, tillVars>>

\* the loop continues with the next step only after a zero exit code
StepSucceeded(result) == result.exitCode = "0"

\* runChain after `await runAgent(...)` has yielded `result`
ChainResume(result, ps, spawnOk) ==
    IF ~StepSucceeded(result) THEN
        IF run.i > Len(stepStates) THEN
            \* stepStates[i].status = "error" on undefined
            /\ run' = Rejected(run)
            /\ stepStates' = stepStates
            /\ procs' = ps
            /\ spawnCalls' = spawnCalls
        ELSE
            /\ stepStates' = [stepStates EXCEPT ![run.i].status = "error"]
            /\ run' = Resolved(run, FALSE,
                               StepErrorOut(run.i, run.agent, result.output))
            /\ procs' = ps
            /\ spawnCalls' = spawnCalls
    ELSE IF run.i > Len(stepStates) THEN
        \* stepStates[i].status = "done" on undefined
        /\ run' = Rejected(run)
        /\ stepStates' = stepStates
        /\ procs' = ps
        /\ spawnCalls' = spawnCalls
    ELSE
        ChainIter(run, [stepStates EXCEPT ![run.i].status = "done"], ps,
                  run.i + 1, result.output, spawnOk)

\* proc.on("error") of runAgent, and the continuation of runChain it resumes
ChainProcError(i, spawnOk) ==
    /\ topology = "pipeline"
    /\ procs[i].phase = "spawnfail"
    /\ LET res == Result("1", "Error spawning agent") IN
        ChainResume(res, [procs EXCEPT ![i].phase = "errored",
                                       ![i].result = Resolve(@, res)], spawnOk)
    /\ last' = [NoLast EXCEPT !.op = "error", !.key = procs[i].agent, !.proc = i,
                              !.exitCode = "1", !.outcome = run'.pc]
    /\ UNCHANGED <<topology, ctxModel, disk, activeChain, pendingReset,
                   agentSessions, chainGen>>
    /\ UNCHANGED <<teamVars, poolVars, envVars, loaderVars, streamVars, tillVars>>

\* textChunks.join("") of a run that ended with `code`
StepOutputs(code) == IF code = "0" THEN {"out", "costs a$$b"} ELSE {"out"}

\* proc.on("close") of runAgent, and the continuation of runChain it resumes;
\* after an "error" event the promise is settled and close resumes nothing
ChainProcClose(i, code, out, spawnOk) ==
    /\ topology = "pipeline"
    /\ \/ procs[i].phase = "alive" /\ code \in ExitCodes
       \/ procs[i].phase = "errored" /\ code = SpawnFailCode
    /\ agentSessions' = IF code = "0"
                        THEN [agentSessions EXCEPT ![procs[i].agent] = TRUE]
                        ELSE agentSessions
    /\ LET res == Result(CodeOrOne(code), out)
           ps == [procs EXCEPT ![i].phase = "closed",
                               ![i].result = Resolve(@, res)]
       IN  IF procs[i].result.settled THEN
                /\ procs' = ps
                /\ UNCHANGED <<stepStates, run, spawnCalls>>
           ELSE ChainResume(res, ps, spawnOk)
    /\ last' = [NoLast EXCEPT !.op = "close", !.key = procs[i].agent, !.proc = i,
                              !.code = code,
                              !.exitCode = procs'[i].result.exitCode,
                              !.outcome = run'.pc,
                              !.text = Combined(out, WorkerStderr(code)),
                              \* console.error of the diagnostic
                              !.output = IF code # "0"
                                         THEN DetectCredentialFailure(
                                                Combined(out, WorkerStderr(code)),
                                                procs[i].agent, procs[i].env)
                                         ELSE NoOutput]
    /\ disk' = IF code = "0" THEN disk \cup {procs[i].agent} ELSE disk
    /\ UNCHANGED <<topology, ctxModel, activeChain, pendingReset, chainGen>>
    /\ UNCHANGED <<teamVars, poolVars, envVars, loaderVars, streamVars, tillVars>>

\* the running subprocess writes its --session file
ChainProcWritesSession(i) ==
    /\ topology = "pipeline"
    /\ Alive(procs[i])
    /\ procs[i].agent \notin disk
    /\ disk' = disk \cup {procs[i].agent}
    /\ last' = [NoLast EXCEPT !.op = "write", !.key = procs[i].agent, !.proc = i]
    /\ UNCHANGED <<topology, ctxModel, procs, spawnCalls>>
    /\ UNCHANGED <<teamVars, chainVars, poolVars, envVars, loaderVars, streamVars, tillVars>>

(***************************************************************************)
(* subagent-widget.ts : the Pool                                           *)
(***************************************************************************)
\* the key space of the agents map
PoolIds == 1 .. MaxPoolOps + 1

\* the model's budget allows one more spawn or pool reset
PoolBudget == spawnCalls + poolGen < MaxPoolOps

\* agents.get(id)
Known(id) == agents[id] # 0

\* the ids a caller names: every id in the map, and one that is not in it
CallerIds == {id \in PoolIds : Known(id)} \cup {nextId}

\* state.status === "running" of subagent_continue and /subcont
StillRunningUnchecked(state) == FALSE

StillRunning(state) == state.status = "running"

\* the SubState literal of subagent_create and /sub
NewSubState(id, task, file) ==
    [id |-> id, status |-> "running", task |-> task, textChunks |-> <<>>,
     sessionFile |-> file, turnCount |-> 1, proc |-> 0]

\* makeSessionFile(id): subagent-<id>-<Date.now()>.jsonl, a new path at every
\* call; n is the number of SubStates created before
MakeSessionFile(id, n) == <<id, n + 1>>

\* the assignments of an accepted continue, without state.textChunks = []
ContinuedKeepingOutput(state, prompt) ==
    [state EXCEPT !.status = "running", !.task = prompt, !.turnCount = @ + 1]

\* the assignments of an accepted continue: status, task, textChunks, turnCount
Continued(state, prompt) ==
    [state EXCEPT !.status = "running", !.task = prompt, !.textChunks = <<>>,
                  !.turnCount = @ + 1]

\* a SubState no reference is left to
Collected ==
    [id |-> 0, status |-> "collected", task |-> "", textChunks |-> <<>>,
     sessionFile |-> <<0, 0>>, turnCount |-> 0, proc |-> 0]

\* the subprocess spawnAgent starts for SubState object o
PoolProc(o, id, phase, session, prompt) ==
    [agent |-> id, obj |-> o, phase |-> phase, killed |-> FALSE,
     session |-> session, prompt |-> prompt,
     model |-> ModelString(ctxModel),
     env |-> CopyEnv(OrchestratorEnv)]

\* A SubState is referenced by the agents map and by the closures of the
\* event handlers of a subprocess that has not closed yet
Referenced(o, ps, ag) ==
    \/ \E id \in DOMAIN ag : ag[id] = o
    \/ \E i \in DOMAIN ps : ps[i].obj = o /\ ps[i].phase # "closed"

\* the heap after the handler: unreferenced SubStates are gone
Heap(ss, ps, ag) ==
    [o \in DOMAIN ss |-> IF Referenced(o, ps, ag) THEN ss[o] ELSE Collected]

\* spawnAgent(state, prompt, ctx) on the object at index o of the heap `ss`,
\* as <<procs, subStates>> after the call: when spawn throws, the executor
\* leaves before state.proc is assigned and the promise nobody awaits is
\* rejected
SpawnAgent(ss, o, prompt, spawnOk) ==
    IF SpawnThrows(prompt) THEN <<procs, ss>>
    ELSE <<Append(procs, PoolProc(o, ss[o].id,
                                  IF spawnOk THEN "alive" ELSE "spawnfail",
                                  ss[o].sessionFile, prompt)),
           [ss EXCEPT ![o].proc = Len(procs) + 1]>>

\* subagent_create.execute, and the /sub handler given a non-empty task
PoolCreate(task, spawnOk) ==
    /\ topology = "pool"
    /\ PoolBudget
    /\ nextId' = nextId + 1
    /\ agents' = [agents EXCEPT ![nextId] = Len(subStates) + 1]
    /\ spawnCalls' = spawnCalls + 1
    /\ LET after == SpawnAgent(Append(subStates,
                                      NewSubState(nextId, task,
                                          MakeSessionFile(nextId, Len(subStates)))),
                               Len(subStates) + 1, task, spawnOk)
       IN  /\ procs' = after[1]
           /\ subStates' = Heap(after[2], after[1], agents')
    /\ last' = [NoLast EXCEPT !.op = "create", !.key = nextId,
                              !.outcome = IF SpawnThrows(task) THEN "threw" ELSE "spawned"]
    /\ UNCHANGED <<topology, ctxModel, disk, poolGen>>
    /\ UNCHANGED <<teamVars, chainVars, envVars, loaderVars, streamVars, tillVars>>

\* the follow-up prompts of subagent_continue and /subcont
ContinuePrompts == {"now add tests", "task with NUL byte"}

\* subagent_continue.execute and the /subcont handler
PoolContinue(id, prompt, spawnOk) ==
    /\ topology = "pool"
    /\ IF ~Known(id) THEN
            /\ last' = [NoLast EXCEPT !.op = "continue", !.key = id,
                                      !.outcome = "notfound"]
            /\ UNCHANGED <<procs, spawnCalls, subStates>>
       ELSE IF StillRunning(subStates[agents[id]]) THEN
            /\ last' = [NoLast EXCEPT !.op = "continue", !.key = id, !.outcome = "busy"]
            /\ UNCHANGED <<procs, spawnCalls, subStates>>
       ELSE
            /\ PoolBudget
            /\ spawnCalls' = spawnCalls + 1
            /\ LET after == SpawnAgent(
                        [subStates EXCEPT ![agents[id]] = Continued(@, prompt)],
                        agents[id], prompt, spawnOk)
               IN  /\ procs' = after[1]
                   /\ subStates' = after[2]
            /\ last' = [NoLast EXCEPT !.op = "continue", !.key = id,
                                      !.outcome = IF SpawnThrows(prompt)
                                                  THEN "threw" ELSE "spawned"]
    /\ UNCHANGED <<topology, ctxModel, disk, agents, nextId, poolGen>>
    /\ UNCHANGED <<teamVars, chainVars, envVars, loaderVars, streamVars, tillVars>>

\* state.proc.kill("SIGTERM") when state.proc && state.status === "running":
\* the signal is sent; the process stays alive until it exits
KillIfRunning(ps, state) ==
    IF state.proc # 0 /\ state.status = "running" /\ Alive(ps[state.proc])
    THEN [ps EXCEPT ![state.proc].killed = TRUE]
    ELSE ps

\* subagent_remove.execute and the /subrm handler
PoolRemove(id) ==
    /\ topology = "pool"
    /\ IF ~Known(id) THEN
            /\ last' = [NoLast EXCEPT !.op = "remove", !.key = id,
                                      !.outcome = "notfound"]
            /\ UNCHANGED <<procs, agents, subStates>>
       ELSE
            /\ procs' = KillIfRunning(procs, subStates[agents[id]])
            /\ agents' = [agents EXCEPT ![id] = 0]
            /\ subStates' = Heap(subStates, procs', agents')
            /\ last' = [NoLast EXCEPT !.op = "remove", !.key = id, !.outcome = "removed"]
    /\ UNCHANGED <<topology, ctxModel, disk, spawnCalls, nextId, poolGen>>
    /\ UNCHANGED <<teamVars, chainVars, envVars, loaderVars, streamVars, tillVars>>

RECURSIVE KillAll(_, _)
\* for (const [id, state] of agents.entries()) kill if running
KillAll(ps, ids) ==
    IF ids = {} THEN ps
    ELSE LET id == CHOOSE x \in ids : TRUE
         IN  KillAll(KillIfRunning(ps, subStates[agents[id]]), ids \ {id})

\* the /subclear handler and pi.on("session_start"): kill, clear, nextId = 1
PoolReset(via) ==
    /\ topology = "pool"
    /\ PoolBudget
    /\ procs' = KillAll(procs, {id \in PoolIds : Known(id)})
    /\ agents' = [id \in PoolIds |-> 0]
    /\ subStates' = Heap(subStates, procs', agents')
    /\ nextId' = 1
    /\ poolGen' = poolGen + 1
    /\ last' = [NoLast EXCEPT !.op = via, !.key = 0]
    /\ UNCHANGED <<topology, ctxModel, disk, spawnCalls>>
    /\ UNCHANGED <<teamVars, chainVars, envVars, loaderVars, streamVars, tillVars>>

\* proc.on("error") of spawnAgent
PoolProcError(i) ==
    /\ topology = "pool"
    /\ procs[i].phase = "spawnfail"
    /\ procs' = [procs EXCEPT ![i].phase = "errored"]
    /\ subStates' = [subStates EXCEPT ![procs[i].obj].status = "error",
                                      ![procs[i].obj].proc = 0,
                                      ![procs[i].obj].textChunks = Append(@, "Error")]
    /\ last' = [NoLast EXCEPT !.op = "error", !.key = procs[i].agent, !.proc = i]
    /\ UNCHANGED <<topology, ctxModel, disk, spawnCalls, agents, nextId, poolGen>>
    /\ UNCHANGED <<teamVars, chainVars, envVars, loaderVars, streamVars, tillVars>>

\* proc.on("close") of spawnAgent; the exited process holds no SubState any more.
\* The handler ends with pi.sendMessage({customType: "subagent-result", ...},
\* {deliverAs: "followUp", triggerTurn: true}), recorded as the outcome.
PoolProcClose(i, code) ==
    /\ topology = "pool"
    /\ \/ procs[i].phase = "alive" /\ code \in ExitCodes
       \/ procs[i].phase = "errored" /\ code = SpawnFailCode
    /\ procs' = [procs EXCEPT ![i].phase = "closed", ![i].obj = 0,
                               ![i].killed = FALSE]
    /\ subStates' = Heap([subStates EXCEPT
                            ![procs[i].obj].status = StatusForCode(code),
                            ![procs[i].obj].proc = 0],
                         procs', agents)
    /\ last' = [NoLast EXCEPT !.op = "close", !.key = procs[i].agent, !.proc = i,
                              !.code = code, !.outcome = "followUp",
                              !.text = Combined("out", WorkerStderr(code))]
    /\ UNCHANGED <<topology, ctxModel, disk, spawnCalls, agents, nextId, poolGen>>
    /\ UNCHANGED <<teamVars, chainVars, envVars, loaderVars, streamVars, tillVars>>

(***************************************************************************)
(* subprocess-env.ts exercised by a caller: buildSubprocessEnv is called   *)
(* with a model, an env field and a source environment, and called again   *)
(* after the source environment or the arguments have changed.             *)
(***************************************************************************)
\* variable names of the source environments
EnvNames ==
    {"PATH", "ANTHROPIC_API_KEY", "OPENAI_API_KEY", "NPM_TOKEN",
     "AWS_SECRET_ACCESS_KEY"}

\* values a variable of the source environment has when it is set
EnvValues == {"", "v", "w"}

\* model strings: known providers, one in capitals, an unknown provider, a
\* string without "/" and the empty string
EnvModels ==
    {<<"anthropic", "claude">>, <<"Anthropic", "claude">>, <<"openai", "gpt">>,
     <<"mistral", "x">>, <<"claude">>, <<>>}

\* env frontmatter fields: undefined, one name, names with both separators
EnvFields ==
    {<<>>, <<"NPM_TOKEN">>, <<"NPM_TOKEN", ",", " ", "OPENAI_API_KEY">>}

\* the source environment with one variable set
SetVar(env, name, value) ==
    [k \in DOMAIN env \cup {name} |-> IF k = name THEN value ELSE env[k]]

\* the source environment with one variable deleted
UnsetVar(env, name) == [k \in DOMAIN env \ {name} |-> env[k]]

\* the source environment gets a variable (re)assigned, then build is called
EnvSet(name, value) ==
    /\ topology = "env"
    /\ parentEnv' = SetVar(parentEnv, name, value)
    /\ builtEnv' = BuildSubprocessEnv(envModel, envExtras, parentEnv')
    /\ last' = [NoLast EXCEPT !.op = "setenv", !.key = name]
    /\ UNCHANGED <<topology, ctxModel, procs, spawnCalls, disk, envModel, envExtras>>
    /\ UNCHANGED <<teamVars, chainVars, poolVars, loaderVars, streamVars, tillVars>>

\* the source environment loses a variable, then build is called
EnvUnset(name) ==
    /\ topology = "env"
    /\ name \in DOMAIN parentEnv
    /\ parentEnv' = UnsetVar(parentEnv, name)
    /\ builtEnv' = BuildSubprocessEnv(envModel, envExtras, parentEnv')
    /\ last' = [NoLast EXCEPT !.op = "unsetenv", !.key = name]
    /\ UNCHANGED <<topology, ctxModel, procs, spawnCalls, disk, envModel, envExtras>>
    /\ UNCHANGED <<teamVars, chainVars, poolVars, loaderVars, streamVars, tillVars>>

\* buildSubprocessEnv(model, agentEnv, parentEnv) with other arguments
EnvBuild(model, agentEnv) ==
    /\ topology = "env"
    /\ envModel' = model
    /\ envExtras' = agentEnv
    /\ builtEnv' = BuildSubprocessEnv(model, agentEnv, parentEnv)
    /\ last' = [NoLast EXCEPT !.op = "build"]
    /\ UNCHANGED <<topology, ctxModel, procs, spawnCalls, disk, parentEnv>>
    /\ UNCHANGED <<teamVars, chainVars, poolVars, loaderVars, streamVars, tillVars>>

\* output texts given to the scan: the empty text, one text for each kind of
\* signature, and texts that match none
DetectOutputs ==
    { <<>>,
      <<"HTTP", "401", "Unauthorized">>,
      <<"Error:", "403", "Forbidden">>,
      <<"Unauthorized">>,
      <<"fatal:", "Authentication", "failed", "for", "repo">>,
      <<"Error:", "API", "key", "not", "found">>,
      <<"No", "API", "key", "found">>,
      <<"npm", "ERR!", "token", "expired">>,
      <<"Error:", "credentials", "not", "found">>,
      <<"Permission", "denied">>,
      <<"Access", "denied">>,
      <<"spawn", "EACCES">>,
      <<"SyntaxError:", "Unexpected", "token">>,
      <<"listening", "on", "port", "4010">>,
      <<"API", "key", "found">>,
      <<"spawn", "eacces">> }

\* environments passed to a subprocess
DetectEnvs == UNION {[D -> {"v"}] : D \in SUBSET {"PATH", "HOME", "ANTHROPIC_API_KEY", "NPM_TOKEN"}}

\* detectCredentialFailure(output, agentName, env) for the environment built last
EnvDetect(output, agentName) ==
    /\ topology = "detect"
    /\ last' = [NoLast EXCEPT !.op = "detect", !.key = agentName, !.text = output,
                              !.output = DetectCredentialFailure(output, agentName, builtEnv)]
    /\ UNCHANGED <<topology, ctxModel, procs, spawnCalls, disk, envVars>>
    /\ UNCHANGED <<teamVars, chainVars, poolVars, loaderVars, streamVars, tillVars>>

(***************************************************************************)
(* PersonaLoader (extensions/utils/agent-loader.ts).                       *)
(* A string is the sequence of its characters.  The instruction body is    *)
(* the record of what the validators read of it: its length, the number of *)
(* leading and trailing whitespace characters, and the entries of          *)
(* SUSPICIOUS_PATTERNS whose regular expression matches it.                *)
(***************************************************************************)
MAX_SYSTEM_PROMPT_LENGTH == 50000

MAX_NAME_LENGTH == 64

Letters == {"a", "b", "c", "d", "A", "B", "C"}

Digits == {"0", "1"}

\* the character class [a-zA-Z0-9._-] of VALID_NAME_PATTERN
NameChars == Letters \cup Digits \cup {".", "_", "-"}

\* VALID_NAME_PATTERN.test(name): /^[a-zA-Z0-9][a-zA-Z0-9._-]*$/
MatchesNamePattern(name) ==
    /\ Len(name) > 0
    /\ name[1] \in Letters \cup Digits
    /\ \A i \in 2 .. Len(name) : name[i] \in NameChars

KNOWN_TOOLS ==
    {"read", "write", "edit", "bash", "grep", "find", "ls", "fetch", "firecrawl",
     "dispatch_agent", "run_chain", "query_experts", "tilldone", "subagent_create",
     "subagent_continue", "subagent_remove", "subagent_list"}

\* the reasons of SUSPICIOUS_PATTERNS, in the order of the array
SUSPICIOUS_PATTERNS ==
    <<"contains shell command substitution",
      "contains backtick expression with shell command",
      "contains null byte",
      "contains escaped single quote",
      "contains chained destructive shell command",
      "contains pipe to shell",
      "contains redirect to /dev/",
      "contains eval() call">>

\* a ValidationWarning
Finding(field, message, severity) ==
    [field |-> field, message |-> message, severity |-> severity]

\* body.length > MAX_SYSTEM_PROMPT_LENGTH, with the cap itself included
ExceedsCapInclusive(body) == body.length >= MAX_SYSTEM_PROMPT_LENGTH

\* body.length > MAX_SYSTEM_PROMPT_LENGTH
ExceedsCap(body) == body.length > MAX_SYSTEM_PROMPT_LENGTH

ValidateName(name) ==
    IF name = <<>> THEN
        <<Finding("name", "agent name is empty", "error")>>
    ELSE
        (IF Len(name) > MAX_NAME_LENGTH
         THEN <<Finding("name", "agent name exceeds MAX_NAME_LENGTH characters", "error")>>
         ELSE <<>>)
        \o
        (IF ~MatchesNamePattern(name)
         THEN <<Finding("name", "agent name contains invalid characters", "error")>>
         ELSE <<>>)

\* `tools` is the list tools.split(",").map(trim).filter(Boolean)
ValidateTools(tools) ==
    LET unknown == SelectSeq(tools, LAMBDA t : t \notin KNOWN_TOOLS)
    IN  [i \in 1 .. Len(unknown) |-> Finding("tools", unknown[i], "warning")]

ValidateSystemPrompt(body) ==
    LET found == SelectSeq(SUSPICIOUS_PATTERNS, LAMBDA r : r \in body.matches)
    IN  (IF ExceedsCap(body)
         THEN <<Finding("systemPrompt", "system prompt exceeds MAX_SYSTEM_PROMPT_LENGTH characters", "error")>>
         ELSE <<>>)
        \o [i \in 1 .. Len(found) |-> Finding("systemPrompt", found[i], "warning")]

ValidateAgent(agent) ==
    ValidateName(agent.name) \o ValidateTools(agent.tools)
        \o ValidateSystemPrompt(agent.systemPrompt)

\* String.prototype.toLowerCase, character by character
LowerChar(c) ==
    CASE c = "A" -> "a"
      [] c = "B" -> "b"
      [] c = "C" -> "c"
      [] OTHER -> c

ToLowerCase(s) == [i \in 1 .. Len(s) |-> LowerChar(s[i])]

\* body.trim()
Trim(body) == [length |-> body.length - body.blank, blank |-> 0, matches |-> body.matches]

\* basename(filePath, ".md") of a file whose name ends with ".md"
Basename(file) == file.base

DefaultTools == <<"read", "grep", "find", "ls">>

\* fields.name || basename(filePath, ".md")
NameOf(f) == IF f.name # <<>> THEN f.name ELSE Basename(f.file)

\* the AgentDef loadAgentFile builds from a parsed file
AgentOf(f) ==
    [name |-> NameOf(f),
     tools |-> IF f.tools # <<>> THEN f.tools ELSE DefaultTools,
     systemPrompt |-> Trim(f.body),
     file |-> f.file]

\* agent: null of a LoadResult
NullAgent ==
    [name |-> <<>>, tools |-> <<>>,
     systemPrompt |-> [length |-> 0, blank |-> 0, matches |-> {}],
     file |-> [base |-> <<>>, ext |-> ""]]

\* warnings.some((w) => w.severity === "error"), always false
HasErrorsIgnored(warnings) == FALSE

\* warnings.some((w) => w.severity === "error")
HasErrors(warnings) == \E i \in DOMAIN warnings : warnings[i].severity = "error"

LoadAgentFile(f) ==
    IF ~f.readable THEN
        [agent |-> NullAgent,
         warnings |-> <<Finding("file", "could not read file", "error")>>]
    ELSE IF ~f.frontmatter THEN
        [agent |-> NullAgent,
         warnings |-> <<Finding("file", "file does not have valid frontmatter", "error")>>]
    ELSE
        LET agent == AgentOf(f)
            warnings == ValidateAgent(agent)
        IN  [agent |-> IF HasErrors(warnings) THEN NullAgent ELSE agent,
             warnings |-> warnings]

\* agents.has(key), always false
MapHasNothing(m, key) == FALSE

\* agents.has(key)
MapHas(m, key) == key \in DOMAIN m

\* agents.set(key, value)
MapSet(m, key, value) == (key :> value) @@ m

\* new Map()
EmptyMap == [k \in {} |-> NullAgent]

\* onWarning(fullPath, w) for each w of result.warnings
Reports(file, warnings) ==
    [i \in 1 .. Len(warnings) |-> [file |-> file, warning |-> warnings[i]]]

RECURSIVE ScanLoop(_, _, _)
\* the loop of scanAgentDirectory from entry i of the listing on, with the map
\* and the onWarning calls made so far
ScanLoop(files, i, acc) ==
    IF i > Len(files) THEN acc
    ELSE IF files[i].file.ext # ".md" THEN ScanLoop(files, i + 1, acc)
    ELSE
        LET result == LoadAgentFile(files[i])
            key == ToLowerCase(result.agent.name)
            reported == acc.reported \o Reports(files[i].file, result.warnings)
        IN  ScanLoop(files, i + 1,
                [agents |-> IF result.agent # NullAgent /\ ~MapHas(acc.agents, key)
                            THEN MapSet(acc.agents, key, result.agent)
                            ELSE acc.agents,
                 reported |-> reported])

\* scanAgentDirectory(dir, onWarning) on a directory that exists
ScanAgentDirectory(files) ==
    ScanLoop(files, 1, [agents |-> EmptyMap, reported |-> <<>>])

\* nothing returned: the last step was not a scan
NotScanned == [agents |-> EmptyMap, reported |-> <<>>]

\* ---- the files a directory may hold
Rep(c, n) == [i \in 1 .. n |-> c]

\* values of the name field of the frontmatter; <<>> when there is none
NameFields ==
    {<<>>, <<"a", "b">>, <<"A", "B">>, <<"-", "a">>, <<"a", ";">>,
     Rep("a", MAX_NAME_LENGTH), Rep("a", MAX_NAME_LENGTH + 1)}

\* values of the tools field; <<>> when there is none
ToolFields == {<<>>, <<"read", "sudo">>}

Bodies ==
    {[length |-> 12, blank |-> 1, matches |-> {}],
     [length |-> 20, blank |-> 0,
      matches |-> {"contains backtick expression with shell command",
                   "contains pipe to shell"}],
     [length |-> MAX_SYSTEM_PROMPT_LENGTH, blank |-> 0, matches |-> {}],
     [length |-> MAX_SYSTEM_PROMPT_LENGTH + 1, blank |-> 1, matches |-> {}],
     [length |-> MAX_SYSTEM_PROMPT_LENGTH + 1, blank |-> 0,
      matches |-> {"contains null byte"}]}

MdFiles == {[base |-> <<"a", "b">>, ext |-> ".md"], [base |-> <<"C", "d">>, ext |-> ".md"]}

OtherFiles == {[base |-> <<"a", "b">>, ext |-> ".txt"]}

ParsedFile(file, name, tools, body) ==
    [file |-> file, readable |-> TRUE, frontmatter |-> TRUE,
     name |-> name, tools |-> tools, body |-> body]

PlainBody == [length |-> 12, blank |-> 1, matches |-> {}]

FileUniverse ==
    {ParsedFile(fn, n, t, b) : fn \in MdFiles, n \in NameFields, t \in ToolFields, b \in Bodies}
    \cup {[ParsedFile(fn, <<>>, <<>>, PlainBody) EXCEPT !.readable = FALSE] : fn \in MdFiles}
    \cup {[ParsedFile(fn, <<>>, <<>>, PlainBody) EXCEPT !.frontmatter = FALSE] : fn \in MdFiles}
    \cup {ParsedFile(fn, <<>>, <<>>, PlainBody) : fn \in OtherFiles}

\* a file appears in the directory, after the entries readdirSync lists so far
LoaderWriteFile(f) ==
    /\ topology = "loader"
    /\ \A i \in DOMAIN dirFiles : dirFiles[i].file # f.file
    /\ dirFiles' = Append(dirFiles, f)
    /\ returned' = NotScanned
    /\ last' = [NoLast EXCEPT !.op = "write"]
    /\ UNCHANGED <<topology, ctxModel, procs, spawnCalls, disk>>
    /\ UNCHANGED <<teamVars, chainVars, poolVars, envVars, streamVars, tillVars>>

\* a caller runs scanAgentDirectory(dir, onWarning)
LoaderScan ==
    /\ topology = "loader"
    /\ returned' = ScanAgentDirectory(dirFiles)
    /\ last' = [NoLast EXCEPT !.op = "scan"]
    /\ UNCHANGED <<topology, ctxModel, procs, spawnCalls, disk, dirFiles>>
    /\ UNCHANGED <<teamVars, chainVars, poolVars, envVars, streamVars, tillVars>>

(***************************************************************************)
(* Streaming parse of a worker's stdout (agent-team.ts dispatchAgent,      *)
(* subagent-widget.ts spawnAgent).  A string is the sequence of its        *)
(* characters.  A JSON text is abstracted to three characters: "{", one    *)
(* character for the content of the object, "}".                           *)
(***************************************************************************)
NL == "\n"

RECURSIVE Split(_)
\* s.split("\n"): the pieces between the newlines, always at least one
Split(s) ==
    IF \A i \in DOMAIN s : s[i] # NL THEN <<s>>
    ELSE LET n == CHOOSE i \in DOMAIN s : s[i] = NL /\ \A j \in 1 .. (i - 1) : s[j] # NL
         IN  <<SubSeq(s, 1, n - 1)>> \o Split(SubSeq(s, n + 1, Len(s)))

\* lines.pop() || "", with the popped fragment dropped
PopDropped(lines) == <<>>

\* lines.pop() || "": the fragment after the last newline
Pop(lines) == lines[Len(lines)]

\* !line.trim(): the line is empty or all whitespace
IsBlank(line) == \A i \in DOMAIN line : line[i] = " "

\* the text without the whitespace JSON.parse skips around a value
StripWs(line) ==
    IF IsBlank(line) THEN <<>>
    ELSE LET solid == {i \in DOMAIN line : line[i] # " "}
             first == CHOOSE i \in solid : \A j \in solid : i <= j
             final == CHOOSE i \in solid : \A j \in solid : j <= i
         IN  SubSeq(line, first, final)

\* the text deltas a worker sends
Deltas == {"d", "e"}

\* JSON.parse(line): the event, or the SyntaxError it throws
JsonParse(line) ==
    LET text == StripWs(line) IN
    IF Len(text) = 3 /\ text[1] = "{" /\ text[3] = "}" THEN
        CASE text[2] \in Deltas ->
                [type |-> "message_update", deltaType |-> "text_delta",
                 delta |-> <<text[2]>>]
          [] text[2] = "t" ->
                [type |-> "message_update", deltaType |-> "thinking_delta",
                 delta |-> <<>>]
          [] text[2] = "s" ->
                [type |-> "tool_execution_start", deltaType |-> "", delta |-> <<>>]
          [] OTHER ->
                [type |-> "SyntaxError", deltaType |-> "", delta |-> <<>>]
    ELSE [type |-> "SyntaxError", deltaType |-> "", delta |-> <<>>]

\* the body of the for loop of dispatchAgent's stdout handler, on the
\* accumulators st = [textChunks, toolCount]
TeamLine(st, line) ==
    IF IsBlank(line) THEN st
    ELSE LET event == JsonParse(line) IN
         IF event.type = "message_update" THEN
              IF event.deltaType = "text_delta"
              THEN [st EXCEPT !.textChunks = Append(@, event.delta)]
              ELSE st
         ELSE IF event.type = "tool_execution_start"
              THEN [st EXCEPT !.toolCount = @ + 1]
              ELSE st

\* what dispatchAgent's close handler does with the rest of the buffer
TeamFinal(st, rest) ==
    IF IsBlank(rest) THEN st
    ELSE LET event == JsonParse(rest) IN
         IF event.type = "message_update" /\ event.deltaType = "text_delta"
         THEN [st EXCEPT !.textChunks = Append(@, event.delta)]
         ELSE st

\* processLine(state, line) of subagent-widget.ts
ProcessLine(st, line) ==
    IF IsBlank(line) THEN st
    ELSE LET event == JsonParse(line) IN
         IF event.type = "message_update" THEN
              IF event.deltaType = "text_delta"
              THEN [st EXCEPT !.textChunks = Append(@, event.delta)]
              ELSE st
         ELSE IF event.type = "tool_execution_start"
              THEN [st EXCEPT !.toolCount = @ + 1]
              ELSE st

RECURSIVE ForLines(_, _, _, _)
\* for (const line of lines) ..., from line i on, all but the popped last one
ForLines(who, st, lines, i) ==
    IF i >= Len(lines) THEN st
    ELSE ForLines(who,
                  IF who = "dispatcher" THEN TeamLine(st, lines[i])
                                        ELSE ProcessLine(st, lines[i]),
                  lines, i + 1)

RECURSIVE Join(_)
\* textChunks.join("")
Join(chunks) == IF chunks = <<>> THEN <<>> ELSE Head(chunks) \o Join(Tail(chunks))

\* the chunk a worker writes to stderr
StderrChunk == <<"!", NL>>

\* ---- the streams a worker may write
LineBodies ==
    {<<"{", "d", "}">>, <<"{", "e", "}">>, <<"{", "s", "}">>, <<"{", "t", "}">>,
     <<"{", "d">>, <<" ">>, <<" ", "{", "s", "}">>}

RECURSIVE Terminated(_)
\* every line followed by a newline
Terminated(ls) == IF ls = <<>> THEN <<>> ELSE Head(ls) \o <<NL>> \o Terminated(Tail(ls))

\* up to MaxLines lines, the last one with or without its newline
Streams ==
    LET texts == {Terminated(ls) : ls \in UNION {[1 .. n -> LineBodies] : n \in 0 .. MaxLines}}
    IN  texts \cup {SubSeq(t, 1, Len(t) - 1) : t \in texts \ {<<>>}}

\* proc.stdout.on("data"): the next k characters of the stream arrive.  The
\* outcome of the step is "split" from the first chunk on that ends inside a
\* line.
StreamData(k) ==
    LET chunk == SubSeq(stdout, sent + 1, sent + k)
        lines == Split(buffer \o chunk)
        st == ForLines(parser, [textChunks |-> textChunks, toolCount |-> toolCount],
                       lines, 1)
    IN
    /\ topology = "stream"
    /\ last.op # "close"
    /\ sent + k <= Len(stdout)
    /\ sent' = sent + k
    /\ buffer' = Pop(lines)
    /\ textChunks' = st.textChunks
    /\ toolCount' = st.toolCount
    /\ last' = [NoLast EXCEPT !.op = "data",
                              !.outcome = IF ~IsBlank(buffer') THEN "split"
                                          ELSE last.outcome]
    /\ UNCHANGED <<topology, ctxModel, procs, spawnCalls, disk, parser, stdout,
                   stderrCount>>
    /\ UNCHANGED <<teamVars, chainVars, poolVars, envVars, loaderVars, tillVars>>

\* proc.stderr.on("data"): ignored by dispatchAgent, shown by spawnAgent
StreamStderr(chunk) ==
    /\ topology = "stream"
    /\ last.op # "close"
    /\ stderrCount < MaxStderr
    /\ stderrCount' = stderrCount + 1
    /\ textChunks' = IF parser = "pool" /\ ~IsBlank(chunk)
                     THEN Append(textChunks, chunk)
                     ELSE textChunks
    /\ last' = [NoLast EXCEPT !.op = "stderr", !.outcome = last.outcome]
    /\ UNCHANGED <<topology, ctxModel, procs, spawnCalls, disk, parser, stdout,
                   sent, buffer, toolCount>>
    /\ UNCHANGED <<teamVars, chainVars, poolVars, envVars, loaderVars, tillVars>>

\* proc.on("close"), emitted once the worker's output streams have ended
StreamClose ==
    LET st == IF parser = "dispatcher"
              THEN TeamFinal([textChunks |-> textChunks, toolCount |-> toolCount], buffer)
              ELSE ProcessLine([textChunks |-> textChunks, toolCount |-> toolCount], buffer)
    IN
    /\ topology = "stream"
    /\ last.op # "close"
    /\ sent = Len(stdout)
    /\ textChunks' = st.textChunks
    /\ toolCount' = st.toolCount
    /\ last' = [NoLast EXCEPT !.op = "close", !.outcome = last.outcome]
    /\ UNCHANGED <<topology, ctxModel, procs, spawnCalls, disk, parser, stdout,
                   sent, buffer, stderrCount>>
    /\ UNCHANGED <<teamVars, chainVars, poolVars, envVars, loaderVars, tillVars>>

(***************************************************************************)
(* tilldone.ts: the task list, the tilldone tool, the gate on every other  *)
(* tool, the nudge at agent_end, and the reconstruction of the list from   *)
(* the session branch.  Task objects and Task[] arrays are heap objects:   *)
(* taskObjs and arrays hold them, and tasks, the tasks field of a result's *)
(* details and the elements of an array are references (indices).          *)
(***************************************************************************)
NoId == 0             \* params.id undefined
TaskTexts == {"A", "B"}
AddItems == {<<>>, <<"A">>, <<"A", "B">>}
TaskIdParams == {NoId, 1, 2, 3}
UpdateTexts == {"", "C"}
NewListParams == {[text |-> "", description |-> ""], [text |-> "T", description |-> "D"]}
ToolNames == {"tilldone", "bash"}

NEXT_STATUS(status) ==
    CASE status = "idle" -> "inprogress"
      [] status = "inprogress" -> "done"
      [] status = "done" -> "idle"

\* the Task objects an array refers to, by value
TaskValues(objs, arr) == [k \in DOMAIN arr |-> objs[arr[k]]]

\* tasks.find / tasks.findIndex by id: the first position holding it, 0 if none
FindIndex(objs, arr, id) ==
    IF \E k \in DOMAIN arr : objs[arr[k]].id = id
    THEN CHOOSE k \in DOMAIN arr :
            /\ objs[arr[k]].id = id
            /\ \A j \in 1 .. (k - 1) : objs[arr[j]].id # id
    ELSE 0

\* makeDetails, without the shallow copy: [...tasks] is the array the caller
\* allocates at index copy.  The field produced is not part of the program:
\* it records, by value, what the details held when they were made.
MakeDetails(objs, arrs, t, nid, title, desc, copy) ==
    [tasks |-> copy, nextId |-> nid, listTitle |-> title, listDescription |-> desc,
     produced |-> [tasks |-> TaskValues(objs, arrs[t]), nextId |-> nid,
                   listTitle |-> title]]

\* the end of every branch of execute: the result carries makeDetails of the
\* state the branch leaves, and the host appends the result to the session
TillDoneReturn(action, error, id, objs, arrs, t, nid, title, desc) ==
    /\ taskObjs' = objs
    /\ arrays' = Append(arrs, arrs[t])
    /\ tasks' = t
    /\ taskNextId' = nid
    /\ listTitle' = title
    /\ listDescription' = desc
    /\ entries' = Append(entries,
                         MakeDetails(objs, arrs, t, nid, title, desc, Len(arrs) + 1))
    /\ last' = [NoLast EXCEPT !.op = action, !.outcome = error, !.proc = id]
    /\ UNCHANGED <<nudgedThisCycle, nudges>>
    /\ UNCHANGED <<topology, ctxModel, procs, spawnCalls, disk>>
    /\ UNCHANGED <<teamVars, chainVars, poolVars, envVars, loaderVars, streamVars>>

TillDoneUnchanged(action, error, id) ==
    TillDoneReturn(action, error, id, taskObjs, arrays, tasks, taskNextId, listTitle,
                   listDescription)

TillBudget == topology = "tilldone" /\ Len(arrays) < MaxArrays

\* execute, case "new-list"; confirmed is the answer of ctx.ui.confirm
TillDoneNewList(params, confirmed) ==
    /\ TillBudget
    /\ IF params.text = ""
       THEN TillDoneUnchanged("new-list", "text required", NoId)
       ELSE IF (Len(arrays[tasks]) > 0 \/ listTitle # Null) /\ ~confirmed
       THEN TillDoneUnchanged("new-list", "cancelled", NoId)
       ELSE TillDoneReturn("new-list", "", NoId, taskObjs, Append(arrays, <<>>),
                           Len(arrays) + 1, 1, params.text,
                           IF params.description = "" THEN Null
                           ELSE params.description)

\* execute, case "list"
TillDoneList ==
    /\ TillBudget
    /\ TillDoneUnchanged("list", "", NoId)

\* the Task objects the add loop creates, ids counting up from nid
AddedTasks(items, nid) ==
    [k \in DOMAIN items |-> [id |-> nid + k - 1, text |-> items[k], status |-> "idle"]]

\* execute, case "add"
TillDoneAdd(items) ==
    /\ TillBudget
    /\ IF Len(items) = 0
       THEN TillDoneUnchanged("add", "text required", NoId)
       ELSE TillDoneReturn("add", "", NoId,
                taskObjs \o AddedTasks(items, taskNextId),
                [arrays EXCEPT ![tasks] =
                    @ \o [k \in DOMAIN items |-> Len(taskObjs) + k]],
                tasks, taskNextId + Len(items), listTitle, listDescription)

\* the demotion loop left out
ToggledAlone(objs, arr, idx) ==
    [objs EXCEPT ![arr[idx]].status = NEXT_STATUS(@)]

\* the toggle of lines 499-509 on the heap: the found object steps along
\* NEXT_STATUS, and when it becomes inprogress every other object of the
\* array that is inprogress under another id becomes idle
Toggled(objs, arr, idx) ==
    LET task == arr[idx]
        next == NEXT_STATUS(objs[task].status)
    IN  [o \in DOMAIN objs |->
            IF o = task THEN [objs[o] EXCEPT !.status = next]
            ELSE IF /\ next = "inprogress"
                    /\ \E k \in DOMAIN arr : arr[k] = o
                    /\ objs[o].id # objs[task].id
                    /\ objs[o].status = "inprogress"
                 THEN [objs[o] EXCEPT !.status = "idle"]
                 ELSE objs[o]]

\* execute, case "toggle"
TillDoneToggle(id) ==
    /\ TillBudget
    /\ LET idx == FindIndex(taskObjs, arrays[tasks], id)
       IN  IF id = NoId
           THEN TillDoneUnchanged("toggle", "id required", id)
           ELSE IF idx = 0
           THEN TillDoneUnchanged("toggle", "not found", id)
           ELSE TillDoneReturn("toggle", "", id, Toggled(taskObjs, arrays[tasks], idx),
                               arrays, tasks, taskNextId, listTitle, listDescription)

\* tasks.splice(idx, 1)
Splice(arr, idx) == [k \in 1 .. (Len(arr) - 1) |-> IF k < idx THEN arr[k] ELSE arr[k + 1]]

\* execute, case "remove"
TillDoneRemove(id) ==
    /\ TillBudget
    /\ LET idx == FindIndex(taskObjs, arrays[tasks], id)
       IN  IF id = NoId
           THEN TillDoneUnchanged("remove", "id required", id)
           ELSE IF idx = 0
           THEN TillDoneUnchanged("remove", "not found", id)
           ELSE TillDoneReturn("remove", "", id, taskObjs,
                               [arrays EXCEPT ![tasks] = Splice(@, idx)],
                               tasks, taskNextId, listTitle, listDescription)

\* execute, case "update"
TillDoneUpdate(id, text) ==
    /\ TillBudget
    /\ LET idx == FindIndex(taskObjs, arrays[tasks], id)
       IN  IF id = NoId
           THEN TillDoneUnchanged("update", "id required", id)
           ELSE IF text = ""
           THEN TillDoneUnchanged("update", "text required", id)
           ELSE IF idx = 0
           THEN TillDoneUnchanged("update", "not found", id)
           ELSE TillDoneReturn("update", "", id,
                               [taskObjs EXCEPT ![arrays[tasks][idx]].text = text],
                               arrays, tasks, taskNextId, listTitle, listDescription)

\* execute, case "clear"
TillDoneClear(confirmed) ==
    /\ TillBudget
    /\ IF Len(arrays[tasks]) > 0 /\ ~confirmed
       THEN TillDoneUnchanged("clear", "cancelled", NoId)
       ELSE TillDoneReturn("clear", "", NoId, taskObjs, Append(arrays, <<>>),
                           Len(arrays) + 1, 1, Null, Null)

TillFrame ==
    /\ UNCHANGED <<topology, ctxModel, procs, spawnCalls, disk>>
    /\ UNCHANGED <<teamVars, chainVars, poolVars, envVars, loaderVars, streamVars>>

\* the gate without its third block
GateWithoutActive(toolName, list) ==
    IF toolName = "tilldone" THEN ""
    ELSE IF Len(list) = 0 THEN "no tasks"
    ELSE IF \A k \in DOMAIN list : list[k].status = "done" THEN "all done"
    ELSE ""

\* the decision of the tool_call handler: "" when the call goes through,
\* otherwise which of its three blocks applies
Gate(toolName, list) ==
    IF toolName = "tilldone" THEN ""
    ELSE IF Len(list) = 0 THEN "no tasks"
    ELSE IF \A k \in DOMAIN list : list[k].status = "done" THEN "all done"
    ELSE IF \A k \in DOMAIN list : list[k].status # "inprogress" THEN "none active"
    ELSE ""

\* pi.on("tool_call")
ToolCall(toolName) ==
    /\ topology = "tilldone"
    /\ LET reason == Gate(toolName, TaskValues(taskObjs, arrays[tasks]))
       IN  last' = [NoLast EXCEPT !.op = "tool_call", !.key = toolName,
                                  !.outcome = IF reason = "" THEN "allowed"
                                              ELSE "blocked",
                                  !.code = reason]
    /\ UNCHANGED tillVars
    /\ TillFrame

\* the handler without its nudgedThisCycle test
NudgesEveryEnd(list, nudged) ==
    \E k \in DOMAIN list : list[k].status # "done"

\* whether the agent_end handler sends the nudge
Nudges(list, nudged) ==
    /\ \E k \in DOMAIN list : list[k].status # "done"
    /\ ~nudged

\* pi.on("agent_end")
AgentEnd ==
    /\ topology = "tilldone"
    /\ LET send == Nudges(TaskValues(taskObjs, arrays[tasks]), nudgedThisCycle)
       IN  /\ nudgedThisCycle' = (nudgedThisCycle \/ send)
           /\ nudges' = IF send THEN nudges + 1 ELSE nudges
           /\ last' = [NoLast EXCEPT !.op = "agent_end",
                                     !.outcome = IF send THEN "nudge" ELSE ""]
    /\ UNCHANGED <<taskObjs, arrays, tasks, taskNextId, listTitle, listDescription,
                   entries>>
    /\ TillFrame

\* pi.on("input")
Input ==
    /\ topology = "tilldone"
    /\ nudgedThisCycle' = FALSE
    /\ nudges' = 0
    /\ last' = [NoLast EXCEPT !.op = "input"]
    /\ UNCHANGED <<taskObjs, arrays, tasks, taskNextId, listTitle, listDescription,
                   entries>>
    /\ TillFrame

\* session_switch, session_fork, session_tree: the branch becomes the first k
\* tilldone results, and reconstructState walks it.  Every result carries
\* details, so the state is that of the last one; with none, the reset of
\* lines 303-306 stands.  The host hands the handler the details object it was
\* given (held) or one read back from the session file (a copy by value of
\* what the result held when it was written).
ReconstructState(k, held) ==
    /\ topology = "tilldone"
    /\ entries' = SubSeq(entries, 1, k)
    /\ IF k = 0
       THEN /\ Len(arrays) < MaxArrays
            /\ arrays' = Append(arrays, <<>>)
            /\ tasks' = Len(arrays) + 1
            /\ taskNextId' = 1
            /\ listTitle' = Null
            /\ listDescription' = Null
            /\ UNCHANGED taskObjs
       ELSE /\ taskNextId' = entries[k].nextId
            /\ listTitle' = entries[k].listTitle
            /\ listDescription' = entries[k].listDescription
            /\ IF held
               THEN /\ tasks' = entries[k].tasks
                    /\ UNCHANGED <<taskObjs, arrays>>
               ELSE LET vals == entries[k].produced.tasks
                    IN  /\ Len(arrays) < MaxArrays
                        /\ taskObjs' = taskObjs \o vals
                        /\ arrays' = Append(arrays,
                                [j \in DOMAIN vals |-> Len(taskObjs) + j])
                        /\ tasks' = Len(arrays) + 1
    /\ last' = [NoLast EXCEPT !.op = "reconstruct", !.proc = k]
    /\ UNCHANGED <<nudgedThisCycle, nudges>>
    /\ TillFrame

(***************************************************************************)
(* Initial states and specifications, one per orchestration topology       *)
(***************************************************************************)
InitTillIdle ==
    /\ taskObjs = <<>>
    /\ arrays = << <<>> >>
    /\ tasks = 1
    /\ taskNextId = 1
    /\ listTitle = Null
    /\ listDescription = Null
    /\ nudgedThisCycle = FALSE
    /\ nudges = 0
    /\ entries = <<>>

InitStreamIdle ==
    /\ parser = ""
    /\ stdout = <<>>
    /\ sent = 0
    /\ buffer = <<>>
    /\ textChunks = <<>>
    /\ toolCount = 0
    /\ stderrCount = 0

InitLoaderIdle ==
    /\ dirFiles = <<>>
    /\ returned = NotScanned

InitEnvIdle ==
    /\ envModel = <<>>
    /\ envExtras = <<>>
    /\ parentEnv = OrchestratorEnv
    /\ builtEnv = BuildSubprocessEnv(<<>>, <<>>, OrchestratorEnv)

InitCommon ==
    /\ procs = <<>>
    /\ spawnCalls = 0
    /\ last = NoLast
    /\ disk = {}
    /\ ctxModel \in CtxModels

InitTeamIdle ==
    /\ teamGen = 0
    /\ activeTeamName = ""
    /\ agentStates = [o \in ObjIds |-> AbsentState]

InitChainIdle ==
    /\ activeChain = 0
    /\ stepStates = <<>>
    /\ pendingReset = FALSE
    /\ agentSessions = [a \in AgentDefs |-> FALSE]
    /\ run = NoRun
    /\ chainGen = 0

InitPoolIdle ==
    /\ agents = [id \in PoolIds |-> 0]
    /\ nextId = 1
    /\ subStates = <<>>
    /\ poolGen = 0

InitDisp ==
    /\ topology = "dispatcher"
    /\ InitCommon
    /\ InitTeamIdle
    /\ InitChainIdle
    /\ InitPoolIdle
    /\ InitEnvIdle
    /\ InitLoaderIdle
    /\ InitStreamIdle
    /\ InitTillIdle

NextDisp ==
    \/ TeamSessionStart
    \/ \E choice \in Range(TeamNames) \cup {Null} : AgentsTeam(choice)
    \/ \E n \in DispatchNames, t \in Tasks, ok \in BOOLEAN : DispatchAgent(n, t, ok)
    \/ \E i \in DOMAIN procs : TeamProcError(i)
    \/ \E i \in DOMAIN procs, c \in ExitCodes \cup {SpawnFailCode} : TeamProcClose(i, c)
    \/ \E i \in DOMAIN procs : TeamProcWritesSession(i)

SpecDisp == InitDisp /\ [][NextDisp]_vars

InitPipe ==
    /\ topology = "pipeline"
    /\ InitCommon
    /\ InitTeamIdle
    /\ InitChainIdle
    /\ InitPoolIdle
    /\ InitEnvIdle
    /\ InitLoaderIdle
    /\ InitStreamIdle
    /\ InitTillIdle

NextPipe ==
    \/ ChainSessionStart
    \/ \E choice \in 0 .. Len(Chains) : ChainSwitch(choice)
    \/ BeforeAgentStart
    \/ \E task \in Tasks, spawnOk \in BOOLEAN : RunChain(task, spawnOk)
    \/ \E i \in DOMAIN procs, spawnOk \in BOOLEAN : ChainProcError(i, spawnOk)
    \/ \E i \in DOMAIN procs, code \in ExitCodes \cup {SpawnFailCode},
          spawnOk \in BOOLEAN :
            \E out \in StepOutputs(code) : ChainProcClose(i, code, out, spawnOk)
    \/ \E i \in DOMAIN procs : ChainProcWritesSession(i)

SpecPipe == InitPipe /\ [][NextPipe]_vars

InitPool ==
    /\ topology = "pool"
    /\ procs = <<>>
    /\ spawnCalls = 0
    /\ last = [NoLast EXCEPT !.key = 0]   \* the Pool's keys are its integer ids
    /\ disk = {}
    /\ ctxModel \in CtxModels
    /\ InitTeamIdle
    /\ InitChainIdle
    /\ InitPoolIdle
    /\ InitEnvIdle
    /\ InitLoaderIdle
    /\ InitStreamIdle
    /\ InitTillIdle

NextPool ==
    \/ \E task \in Tasks, spawnOk \in BOOLEAN : PoolCreate(task, spawnOk)
    \/ \E id \in CallerIds, prompt \in ContinuePrompts, spawnOk \in BOOLEAN :
          PoolContinue(id, prompt, spawnOk)
    \/ \E id \in CallerIds : PoolRemove(id)
    \/ \E via \in {"/subclear", "session_start"} : PoolReset(via)
    \/ \E i \in DOMAIN procs : PoolProcError(i)
    \/ \E i \in DOMAIN procs, code \in ExitCodes \cup {SpawnFailCode} :
          PoolProcClose(i, code)

SpecPool == InitPool /\ [][NextPool]_vars

\* the events of the subprocesses: every subprocess that was started ends, and
\* a failed spawn is reported
PoolProcEvents ==
    \E i \in DOMAIN procs :
        \/ PoolProcError(i)
        \/ \E code \in ExitCodes \cup {SpawnFailCode} : PoolProcClose(i, code)

SpecPoolFair == SpecPool /\ WF_vars(PoolProcEvents)

\* the Dispatcher and the Pipeline, the two topologies with session handles
InitTeamPipe == InitDisp \/ InitPipe

NextTeamPipe == NextDisp \/ NextPipe

SpecTeamPipe == InitTeamPipe /\ [][NextTeamPipe]_vars

\* the events of the subprocesses of the Dispatcher and of the Pipeline: every
\* subprocess that was started ends, and a failed spawn is reported
TeamProcEvents ==
    \E i \in DOMAIN procs :
        \/ TeamProcError(i)
        \/ \E code \in ExitCodes \cup {SpawnFailCode} : TeamProcClose(i, code)

ChainProcEvents ==
    \E i \in DOMAIN procs, spawnOk \in BOOLEAN :
        \/ ChainProcError(i, spawnOk)
        \/ \E code \in ExitCodes \cup {SpawnFailCode} :
                \E out \in StepOutputs(code) : ChainProcClose(i, code, out, spawnOk)

SpecTeamPipeFair ==
    SpecTeamPipe /\ WF_vars(TeamProcEvents) /\ WF_vars(ChainProcEvents)

InitEnv ==
    /\ topology = "env"
    /\ procs = <<>>
    /\ spawnCalls = 0
    /\ last = NoLast
    /\ disk = {}
    /\ ctxModel = Null
    /\ InitTeamIdle
    /\ InitChainIdle
    /\ InitPoolIdle
    /\ InitLoaderIdle
    /\ InitStreamIdle
    /\ InitTillIdle
    /\ envModel \in EnvModels
    /\ envExtras \in EnvFields
    /\ parentEnv \in UNION {[D -> EnvValues] : D \in SUBSET EnvNames}
    /\ builtEnv = BuildSubprocessEnv(envModel, envExtras, parentEnv)

NextEnv ==
    \/ \E name \in EnvNames, value \in EnvValues : EnvSet(name, value)
    \/ \E name \in EnvNames : EnvUnset(name)
    \/ \E model \in EnvModels, agentEnv \in EnvFields : EnvBuild(model, agentEnv)

SpecEnv == InitEnv /\ [][NextEnv]_vars

InitDetect ==
    /\ topology = "detect"
    /\ procs = <<>>
    /\ spawnCalls = 0
    /\ last = NoLast
    /\ disk = {}
    /\ ctxModel = Null
    /\ InitTeamIdle
    /\ InitChainIdle
    /\ InitPoolIdle
    /\ InitLoaderIdle
    /\ InitStreamIdle
    /\ InitTillIdle
    /\ envModel = <<>>
    /\ envExtras = <<>>
    /\ parentEnv \in DetectEnvs
    /\ builtEnv = parentEnv

NextDetect ==
    \E output \in DetectOutputs, agentName \in AgentDefs : EnvDetect(output, agentName)

SpecDetect == InitDetect /\ [][NextDetect]_vars

InitPrompt ==
    /\ topology = "prompt"
    /\ InitCommon
    /\ InitTeamIdle
    /\ InitChainIdle
    /\ InitPoolIdle
    /\ InitEnvIdle
    /\ InitLoaderIdle
    /\ InitStreamIdle
    /\ InitTillIdle

NextPrompt ==
    \E t \in DOMAIN PromptTemplates, input \in PromptTexts, original \in PromptTexts :
        ResolveStep(t, input, original)

SpecPrompt == InitPrompt /\ [][NextPrompt]_vars

InitTillDone ==
    /\ topology = "tilldone"
    /\ InitCommon
    /\ InitTeamIdle
    /\ InitChainIdle
    /\ InitPoolIdle
    /\ InitEnvIdle
    /\ InitLoaderIdle
    /\ InitStreamIdle
    /\ InitTillIdle

\* the tool, the gate and the two event handlers
NextTillDone ==
    \/ \E params \in NewListParams, confirmed \in BOOLEAN :
          TillDoneNewList(params, confirmed)
    \/ TillDoneList
    \/ \E items \in AddItems : TillDoneAdd(items)
    \/ \E id \in TaskIdParams : TillDoneToggle(id)
    \/ \E id \in TaskIdParams : TillDoneRemove(id)
    \/ \E id \in TaskIdParams, text \in UpdateTexts : TillDoneUpdate(id, text)
    \/ \E confirmed \in BOOLEAN : TillDoneClear(confirmed)
    \/ \E toolName \in ToolNames : ToolCall(toolName)
    \/ AgentEnd
    \/ Input

SpecTillDone == InitTillDone /\ [][NextTillDone]_vars

\* the same with the session events that reconstruct the list
NextTillDoneSession ==
    \/ NextTillDone
    \/ \E k \in 0 .. Len(entries), held \in BOOLEAN : ReconstructState(k, held)

SpecTillDoneSession == InitTillDone /\ [][NextTillDoneSession]_vars

InitLoader ==
    /\ topology = "loader"
    /\ procs = <<>>
    /\ spawnCalls = 0
    /\ last = NoLast
    /\ disk = {}
    /\ ctxModel = Null
    /\ InitTeamIdle
    /\ InitChainIdle
    /\ InitPoolIdle
    /\ InitEnvIdle
    /\ InitLoaderIdle
    /\ InitStreamIdle
    /\ InitTillIdle

NextLoader ==
    \/ \E f \in FileUniverse : LoaderWriteFile(f)
    \/ LoaderScan

SpecLoader == InitLoader /\ [][NextLoader]_vars

InitStream ==
    /\ topology = "stream"
    /\ procs = <<>>
    /\ spawnCalls = 0
    /\ last = NoLast
    /\ disk = {}
    /\ ctxModel = Null
    /\ InitTeamIdle
    /\ InitChainIdle
    /\ InitPoolIdle
    /\ InitEnvIdle
    /\ InitLoaderIdle
    /\ parser \in {"dispatcher", "pool"}
    /\ stdout \in Streams
    /\ sent = 0
    /\ buffer = <<>>
    /\ textChunks = <<>>
    /\ toolCount = 0
    /\ stderrCount = 0
    /\ InitTillIdle

NextStream ==
    \/ \E k \in 1 .. (Len(stdout) - sent) : StreamData(k)
    \/ StreamStderr(StderrChunk)
    \/ StreamClose

SpecStream == InitStream /\ [][NextStream]_vars

(***************************************************************************)
(* Properties of the Dispatcher (agent-team.ts)                            *)
(***************************************************************************)

\* C1: in every reachable state at most one subprocess is alive for any
\* worker identity of the Dispatcher, under any interleaving of dispatches,
\* roster activations, session starts and subprocess events.
DispatcherOneAlivePerIdentity ==
    topology = "dispatcher" =>
        \A i, j \in DOMAIN procs :
            (i < j /\ Alive(procs[i]) /\ Alive(procs[j]))
                => procs[i].agent # procs[j].agent

UnknownIdentityListsRoster ==
    [][ (topology = "dispatcher" /\ last'.op = "dispatch") =>
            LET inRoster(a) == a \in AgentDefs /\ agentStates[<<a, teamGen>>].status # "absent"
            IN  /\ ~inRoster(last'.key) =>
                    /\ last'.outcome = "notfound" /\ last'.exitCode = "1"
                    /\ last'.output.kind = "not found"
                    /\ last'.output.name \in DispatchNames
                    /\ last'.output.listed =
                            {DisplayName(a) : a \in {b \in AgentDefs : inRoster(b)}}
                /\ last'.outcome \in {"notfound", "busy"} =>
                    /\ spawnCalls' = spawnCalls
                    /\ procs' = procs
                    /\ agentStates' = agentStates
      ]_vars

\* C25 witness: an unknown identity was answered with the one name of the
\* active roster while that worker's subprocess was running.
UnknownIdentityListsRosterWitness ==
    /\ topology = "dispatcher"
    /\ last.op = "dispatch" /\ last.outcome = "notfound"
    /\ last.key = "builder"
    /\ last.output.listed = {"Scout"}
    /\ \E i \in DOMAIN procs : Alive(procs[i]) /\ procs[i].agent = "scout"
    /\ StateOf("scout").status = "running"

\* subprocess j is the one the latest accepted dispatch to worker state o
\* started
StartedByLatestDispatch(j, o) ==
    /\ procs[j].agent = o[1] /\ procs[j].gen = o[2]
    /\ \A k \in DOMAIN procs :
            (procs[k].agent = o[1] /\ procs[k].gen = o[2]) => k <= j

\* C34: the status of a worker state changes only from idle, done or error to
\* running, by an accepted dispatch to that worker; from running to done or
\* error, by an event of the subprocess which that dispatch started; and a
\* worker state is idle only as roster activation and session start make it.
DispatcherLifecycle ==
    [][ topology = "dispatcher" =>
            \A o \in ObjIds :
                LET s == agentStates[o].status
                    t == agentStates'[o].status
                    reset == \/ last'.op = "session_start"
                             \/ last'.op = "agents-team" /\ last'.outcome = "activated"
                IN  s # t =>
                        \/ /\ t = "running" /\ s \in {"idle", "done", "error"}
                           /\ last'.op = "dispatch" /\ last'.key = o[1] /\ o[2] = teamGen
                           /\ last'.outcome \in {"spawned", "threw"}
                        \/ /\ t \in {"done", "error"} /\ s = "running"
                           /\ last'.op \in {"close", "error"}
                           /\ StartedByLatestDispatch(last'.proc, o)
                        \/ t = "idle" /\ s = "absent" /\ reset
                        \/ t = "absent" /\ reset
      ]_vars

(***************************************************************************)
(* Properties of the Pipeline (agent-chain.ts)                             *)
(***************************************************************************)
\* a step is in flight while its promise is unsettled or its process is alive
InFlight(p) == ~p.result.settled \/ Alive(p)

\* C3: within one run the subprocess of step i+1 exists only once the promise
\* of step i's subprocess has resolved, and two steps of the same run are
\* never in flight together.
PipelineStepsSequential ==
    topology = "pipeline" =>
        \A j \in DOMAIN procs :
            /\ procs[j].step > 1 =>
                \E i \in 1 .. j - 1 :
                    /\ procs[i].run = procs[j].run
                    /\ procs[i].step = procs[j].step - 1
                    /\ procs[i].result.settled
            /\ \A i \in 1 .. j - 1 :
                procs[i].run = procs[j].run =>
                    /\ procs[i].step < procs[j].step
                    /\ ~(InFlight(procs[i]) /\ InFlight(procs[j]))

PipelineStepsSequentialWitness ==
    /\ topology = "pipeline"
    /\ \E j \in DOMAIN procs :
        /\ procs[j].step = 3 /\ Alive(procs[j])
        /\ \E i \in 1 .. j - 1 :
            procs[i].run = procs[j].run /\ procs[i].step = 2
                /\ procs[i].phase = "closed"

\* C4: when the subprocess a run awaits fails (non-zero exit or spawn error),
\* or the next step names a persona that is not loaded, that same turn spawns
\* nothing and leaves the run resolved with success = false and an output
\* naming the 1-based index of the failing step and its worker; and a run
\* never has a subprocess after one that failed.
PipelineFailFast ==
    /\ [](topology = "pipeline" =>
            \A i, j \in DOMAIN procs :
                (i < j /\ procs[i].run = procs[j].run)
                    => procs[i].result.exitCode = "0")
    /\ [][ (topology = "pipeline" /\ last'.op \in {"close", "error"}
                /\ ~procs[last'.proc].result.settled) =>
            LET p == procs[last'.proc]
                code == procs'[last'.proc].result.exitCode
                k == p.step + 1
                steps == Chains[activeChain].steps
            IN  /\ code # "0" =>
                    /\ Len(procs') = Len(procs)
                    /\ run'.pc = "resolved" /\ ~run'.success
                    /\ run'.output.kind = "step-error"
                    /\ run'.output.step = p.step
                    /\ ToLower(run'.output.agent) = p.agent
                /\ (code = "0" /\ k <= Len(steps)
                        /\ ToLower(steps[k].agent) \notin AgentDefs) =>
                    /\ Len(procs') = Len(procs)
                    /\ run'.pc = "resolved" /\ ~run'.success
                    /\ run'.output.kind = "not-found"
                    /\ run'.output.step = k
                    /\ run'.output.agent = steps[k].agent
          ]_vars

\* C11: no run of the chain ends by throwing: run_chain.execute, which has
\* no handler of its own, always gets a { output, success, elapsed } result.
PipelineNeverThrows == topology = "pipeline" => run.pc # "rejected"

\* the step spawned a subprocess
Spawned == Len(procs') = Len(procs) + 1

\* the template with each placeholder piece replaced by the text itself
Filled(template, input, original) ==
    [k \in DOMAIN template |->
        CASE template[k] = "$INPUT" -> input
          [] template[k] = "$ORIGINAL" -> original
          [] OTHER -> template[k]]

\* the input of the step spawned in this step: the task when run_chain starts
\* the run, the output of the step that has just closed otherwise
StepInput ==
    IF last'.op = "run_chain" THEN run'.task
    ELSE procs'[last'.proc].result.output

\* C21: the prompt of every step is its template with the previous-output
\* placeholder replaced by the task (step 1) or by the output of the step
\* before it, and the original-task placeholder by the task; a run that
\* succeeds resolves with the output of its last step.
PipelineDataFlow ==
    [][(topology = "pipeline") =>
        /\ Spawned =>
              procs'[Len(procs')].prompt =
                  Filled(Chains[activeChain].steps[procs'[Len(procs')].step].prompt,
                         StepInput, run'.task)
        /\ (run.pc = "await" /\ run'.pc = "resolved" /\ run'.success) =>
              run'.output = TextOut(procs'[last'.proc].result.output)]_vars

\* C36: the prompt built for a step is its template with the previous-output
\* placeholder replaced by the input text as it is and the original-task
\* placeholder by the task as it is: nothing inside the inserted texts is
\* expanded.
SubstitutionIsVerbatim ==
    (topology = "prompt" /\ last.op = "resolve") =>
        last.text = Filled(PromptTemplates[last.proc], last.key, last.outcome)

(***************************************************************************)
(* Properties of the Pool (subagent-widget.ts)                             *)
(***************************************************************************)
\* C5: a continue that names an identity which is not in the pool, or whose
\* worker is running, is rejected: it spawns nothing and leaves the pool and
\* every worker state as they were; and a continue that directly follows the
\* create of the same identity is rejected as still running.
PoolContinueRejected ==
    [][ (topology = "pool" /\ last'.op = "continue") =>
            LET id == last'.key IN
            /\ (~Known(id) \/ subStates[agents[id]].status = "running") =>
                /\ last'.outcome = IF Known(id) THEN "busy" ELSE "notfound"
                /\ spawnCalls' = spawnCalls
                /\ procs' = procs
                /\ subStates' = subStates
                /\ agents' = agents
                /\ nextId' = nextId
            /\ (last.op = "create" /\ last.key = id) =>
                /\ last'.outcome = "busy"
                /\ spawnCalls' = spawnCalls
                /\ procs' = procs
                /\ subStates' = subStates
      ]_vars

PoolContinueRejectedWitness ==
    /\ topology = "pool"
    /\ last.op = "continue" /\ last.outcome = "busy"
    /\ spawnCalls = 1 /\ Len(procs) = 1 /\ Alive(procs[1])
    /\ Known(last.key)
    /\ procs[1].obj = agents[last.key]
    /\ subStates[agents[last.key]].turnCount = 1

\* C6: no two alive subprocesses belong to the same pool identity.
PoolOneAlivePerIdentity ==
    topology = "pool" =>
        \A i, j \in DOMAIN procs :
            (i < j /\ Alive(procs[i]) /\ Alive(procs[j]))
                => procs[i].agent # procs[j].agent

\* the step is the close handler of a subprocess that was sent SIGTERM
ClosesKilled == last'.op = "close" /\ procs[last'.proc].killed

\* C15: a removal deletes the identity from the map, and when the run it
\* killed exits next, no subagent-result message goes to the primary agent.
RemoveDiscardsRun ==
    /\ [][(last'.op = "remove" /\ last'.outcome = "removed")
            => (~Known(last.key))']_vars
    /\ [][(last.op = "remove" /\ last.outcome = "removed" /\ ClosesKilled
                /\ last'.key = last.key)
            => last'.outcome # "followUp"]_vars

\* C22: a create assigns an identity greater than the identity of every
\* worker a subprocess was spawned for before, resets included.
PoolIdentitiesIncrease ==
    [][(topology = "pool" /\ last'.op = "create") =>
            \A i \in DOMAIN procs : procs[i].agent < last'.key]_vars

\* C23: after a create or an accepted continue has returned, the run of that
\* worker ends with a follow-up message to the primary agent.
PoolRunsNotify ==
    \A id \in PoolIds :
        (last.op \in {"create", "continue"} /\ last.key = id
            /\ last.outcome \in {"spawned", "threw"})
        ~> (last.op = "close" /\ last.key = id /\ last.outcome = "followUp")

\* C24: an accepted continue sets the status to running, the task to the
\* new prompt, empties the output and adds one to the turn count; the identity
\* and the session file stay, and the subprocess is spawned with that file.
ContinueReusesSession ==
    [][(topology = "pool" /\ last'.op = "continue" /\ last'.outcome = "spawned") =>
            LET o == agents[last'.key]
                p == procs'[Len(procs')]
            IN  /\ Spawned
                /\ agents' = agents
                /\ subStates'[o].status = "running"
                /\ subStates'[o].task = p.prompt
                /\ p.prompt \in ContinuePrompts
                /\ subStates'[o].textChunks = <<>>
                /\ subStates'[o].turnCount = subStates[o].turnCount + 1
                /\ subStates'[o].id = subStates[o].id
                /\ subStates'[o].sessionFile = subStates[o].sessionFile
                /\ p.session = subStates[o].sessionFile
                /\ \A i \in DOMAIN procs :
                      procs[i].obj = o => procs[i].session = p.session]_vars

\* a worker whose run left output has been continued
ContinueReusesSessionWitness ==
    /\ topology = "pool"
    /\ last.op = "continue" /\ last.outcome = "spawned"
    /\ subStates[agents[last.key]].turnCount = 2
    /\ subStates[agents[last.key]].task = "now add tests"
    /\ \E i \in DOMAIN procs :
          /\ i < Len(procs)
          /\ procs[i].agent = last.key
          /\ procs[i].session = procs[Len(procs)].session

(***************************************************************************)
(* Properties of the session handles (agent-team.ts, agent-chain.ts)       *)
(***************************************************************************)
\* the worker is in the roster (Dispatcher) or loaded (Pipeline)
HasWorker(k) ==
    IF topology = "dispatcher" THEN StateOf(k).status # "absent" ELSE TRUE

\* the session handle of worker k is present
HasHandle(k) ==
    IF topology = "dispatcher" THEN StateOf(k).sessionFile ELSE agentSessions[k]

\* some run of worker k has exited with code 0
HasExitedZero(k) ==
    \E i \in DOMAIN procs :
        /\ procs[i].agent = k /\ procs[i].phase = "closed"
        /\ procs[i].result.exitCode = "0"


\* the subprocess a step spawns has the continuation flag exactly when the
\* handle of its worker was present
SpawnContinuesHandle ==
    Spawned => (procs'[Len(procs')].cont <=> HasHandle(procs'[Len(procs')].agent))

\* worker k has a handle before the step and is without it after the step
LosesHandle(k) ==
    /\ HasWorker(k) /\ HasHandle(k)
    /\ HasWorker(k)' /\ ~(HasHandle(k)')

\* C12: a subprocess is spawned with the continuation flag exactly when the
\* session handle of its worker is present; a handle is present only after a
\* run of that worker has exited with code 0; and a worker that has a handle
\* keeps it in every step but a session start.
ContinuationFollowsHandle ==
    /\ [](topology \in {"dispatcher", "pipeline"} =>
            \A k \in AgentDefs : (HasWorker(k) /\ HasHandle(k)) => HasExitedZero(k))
    /\ [][(topology \in {"dispatcher", "pipeline"}) => SpawnContinuesHandle]_vars
    /\ [][(topology \in {"dispatcher", "pipeline"} /\ last'.op # "session_start")
            => \A k \in AgentDefs : ~LosesHandle(k)]_vars

\* no worker has a session handle
HandlesAbsent == \A k \in AgentDefs : HasWorker(k) => ~HasHandle(k)

\* C13: right after a session start no worker has a session handle, and the
\* close of a subprocess that was in flight over the session start (the very
\* next step, so nothing was spawned after the reset) leaves it that way.
NoHandleFromEarlierSession ==
    /\ []((topology \in {"dispatcher", "pipeline"} /\ last.op = "session_start")
            => HandlesAbsent)
    /\ [][(topology \in {"dispatcher", "pipeline"} /\ last.op = "session_start"
                /\ last'.op = "close") => HandlesAbsent']_vars

\* the subprocesses that are running and have not been sent SIGTERM
Unsignalled(ps) == {i \in DOMAIN ps : Alive(ps[i]) /\ ~ps[i].killed}

\* C14: a session start leaves no running subprocess without a termination
\* signal, whichever extension spawned it.
SessionStartSignalsWorkers ==
    [][(last'.op = "session_start") => Unsignalled(procs') = {}]_vars

(***************************************************************************)
(* Properties of the EnvironmentBuilder (subprocess-env.ts)                *)
(***************************************************************************)
\* the credential variable of the provider of envModel, Null if there is none
ProviderKeyOfModel ==
    IF Len(envModel) >= 2 /\ ToLower(envModel[1]) \in PROVIDER_KEYS
    THEN PROVIDER_KEY_MAP(ToLower(envModel[1])) ELSE Null

\* no extras are declared in the env field
NoExtrasDeclared == \A k \in DOMAIN envExtras : envExtras[k] \in Separators

\* among the API keys the output has at most the one of the model's provider
OnlyOwnCredential ==
    \A k \in ALL_API_KEYS : k \in DOMAIN builtEnv => k = ProviderKeyOfModel

\* a step that changes one variable of the source which is not a system
\* variable and not the credential of the model's provider leaves the
\* output as it was
OtherVariablesIrrelevant ==
    (last'.op \in {"setenv", "unsetenv"} /\ NoExtrasDeclared
        /\ last'.key \notin SYSTEM_VARS /\ last'.key # ProviderKeyOfModel)
            => builtEnv' = builtEnv

\* C7 as stated: with no declared extras the output has the credential
\* variable of the model's provider whenever the source has that variable,
\* has no other provider's credential variable, and does not change when
\* another provider's credential or any other non-system variable changes.
CredentialIsolation ==
    /\ []((topology = "env" /\ NoExtrasDeclared) =>
            /\ OnlyOwnCredential
            /\ (ProviderKeyOfModel # Null /\ ProviderKeyOfModel \in DOMAIN parentEnv)
                => /\ ProviderKeyOfModel \in DOMAIN builtEnv
                   /\ builtEnv[ProviderKeyOfModel] = parentEnv[ProviderKeyOfModel])
    /\ [][topology = "env" => OtherVariablesIrrelevant]_vars

\* C7, amended: the same, where the source "has" the credential variable
\* when it holds a non-empty value for it.
CredentialIsolationNonEmpty ==
    /\ []((topology = "env" /\ NoExtrasDeclared) =>
            /\ OnlyOwnCredential
            /\ (ProviderKeyOfModel # Null /\ ProviderKeyOfModel \in DOMAIN parentEnv
                    /\ parentEnv[ProviderKeyOfModel] # "")
                => /\ ProviderKeyOfModel \in DOMAIN builtEnv
                   /\ builtEnv[ProviderKeyOfModel] = parentEnv[ProviderKeyOfModel])
    /\ [][topology = "env" => OtherVariablesIrrelevant]_vars

CredentialIsolationWitness ==
    /\ topology = "env"
    /\ envModel = <<"anthropic", "claude">> /\ envExtras = <<>>
    /\ last.op = "setenv" /\ last.key = "OPENAI_API_KEY"
    /\ "OPENAI_API_KEY" \in DOMAIN parentEnv /\ parentEnv["OPENAI_API_KEY"] = "w"
    /\ "ANTHROPIC_API_KEY" \in DOMAIN parentEnv
    /\ "ANTHROPIC_API_KEY" \in DOMAIN builtEnv
    /\ "OPENAI_API_KEY" \notin DOMAIN builtEnv

\* the variables the env field names
DeclaredExtras == {envExtras[k] : k \in DOMAIN envExtras} \ Separators

\* the source has the variable
Present(k) == k \in DOMAIN parentEnv

\* the source has the variable with a value other than the empty string
PresentNonEmpty(k) == k \in DOMAIN parentEnv /\ parentEnv[k] # ""

\* the credential variable of the model's provider, as a set
ProviderKeySet == IF ProviderKeyOfModel = Null THEN {} ELSE {ProviderKeyOfModel}

\* without a known provider the output has a credential variable only if the
\* env field names it
NoProviderNoCredential ==
    ProviderKeyOfModel = Null =>
        \A k \in ALL_API_KEYS : k \in DOMAIN builtEnv => k \in DeclaredExtras

\* C26 as stated: the keys of the output are exactly the system variables,
\* the credential variable of the model's provider and the declared extras
\* that the source has, each with the source's value; without a known provider
\* no credential variable is added.
KeySetExact ==
    topology = "env" =>
        /\ DOMAIN builtEnv =
                {k \in SYSTEM_VARS \cup ProviderKeySet \cup DeclaredExtras : Present(k)}
        /\ \A k \in DOMAIN builtEnv : builtEnv[k] = parentEnv[k]
        /\ NoProviderNoCredential

\* C26, amended: the same, where the source "has" a variable when it holds a
\* non-empty value for it.
KeySetExactNonEmpty ==
    topology = "env" =>
        /\ DOMAIN builtEnv =
                {k \in SYSTEM_VARS \cup ProviderKeySet \cup DeclaredExtras :
                    PresentNonEmpty(k)}
        /\ \A k \in DOMAIN builtEnv : builtEnv[k] = parentEnv[k]
        /\ NoProviderNoCredential

\* C26 witness: build was called for a model of an unknown provider with a
\* declared extra; the source has a system variable, the extra and a
\* credential, and the output has the first two only.
KeySetExactWitness ==
    /\ topology = "env" /\ last.op = "build"
    /\ envModel = <<"mistral", "x">> /\ envExtras = <<"NPM_TOKEN">>
    /\ PresentNonEmpty("PATH") /\ PresentNonEmpty("NPM_TOKEN")
    /\ PresentNonEmpty("ANTHROPIC_API_KEY")
    /\ DOMAIN builtEnv = {"PATH", "NPM_TOKEN"}

\* C27 as stated: whichever of "," and whitespace separate the names of the
\* env field, each named variable is a key of the output if and only if the
\* source has it, and no key of the output is absent from the source or
\* holds the empty string.
ExtrasIffPresent ==
    topology = "env" =>
        /\ \A k \in DeclaredExtras : k \in DOMAIN builtEnv <=> Present(k)
        /\ \A k \in DOMAIN builtEnv : PresentNonEmpty(k)

\* C27, amended: the same, where the source "has" a variable when it holds a
\* non-empty value for it.
ExtrasIffPresentNonEmpty ==
    topology = "env" =>
        /\ \A k \in DeclaredExtras : k \in DOMAIN builtEnv <=> PresentNonEmpty(k)
        /\ \A k \in DOMAIN builtEnv : PresentNonEmpty(k)

\* C27 witness: the field names two variables separated by a comma and a
\* blank; the source has only the second, and only the second is in the output.
ExtrasIffPresentWitness ==
    /\ topology = "env" /\ last.op = "build"
    /\ envModel = <<"anthropic", "claude">>
    /\ envExtras = <<"NPM_TOKEN", ",", " ", "OPENAI_API_KEY">>
    /\ ~Present("NPM_TOKEN") /\ PresentNonEmpty("OPENAI_API_KEY")
    /\ "OPENAI_API_KEY" \in DOMAIN builtEnv
    /\ "NPM_TOKEN" \notin DOMAIN builtEnv

\* output texts with one of the signatures: 401 or 403, unauthorized,
\* authentication failed, a missing API key, an expired token, missing
\* credentials
SignatureTexts ==
    { <<"HTTP", "401", "Unauthorized">>, <<"Error:", "403", "Forbidden">>,
      <<"Unauthorized">>, <<"fatal:", "Authentication", "failed", "for", "repo">>,
      <<"Error:", "API", "key", "not", "found">>, <<"No", "API", "key", "found">>,
      <<"npm", "ERR!", "token", "expired">>,
      <<"Error:", "credentials", "not", "found">> }

\* output texts with one of the other patterns: access denied, permission
\* denied, EACCES
PermissionTexts ==
    { <<"Permission", "denied">>, <<"Access", "denied">>, <<"spawn", "EACCES">> }

\* the scan found something, named the worker and listed exactly the keys of
\* the passed environment that are not system variables, or "no API keys"
\* when there is none; or it found nothing and returned null
DiagnosticWellFormed ==
    LET passed == DOMAIN builtEnv \ SYSTEM_VARS
    IN  IF last.output.kind = "diagnostic"
        THEN /\ last.output.name = last.key
             /\ last.output.listed = IF passed = {} THEN {"no API keys"} ELSE passed
        ELSE last.output = NoOutput

\* C29 as stated: the scan returns a diagnostic if and only if the output is
\* not empty and has one of the signatures 401 or 403, unauthorized,
\* authentication failed, missing or invalid API key, expired or missing
\* token, missing credentials; the diagnostic names the worker and lists
\* exactly the non-system variables passed, or says no API keys were passed;
\* for any other output the result is null.
DiagnosticIffListedSignature ==
    (topology = "detect" /\ last.op = "detect") =>
        /\ last.output.kind = "diagnostic" <=> last.text \in SignatureTexts
        /\ DiagnosticWellFormed

\* C29, amended: the same, with access denied, permission denied and EACCES
\* among the signatures, which are the patterns of CREDENTIAL_PATTERNS.
DiagnosticIffSignature ==
    (topology = "detect" /\ last.op = "detect") =>
        /\ last.output.kind = "diagnostic"
                <=> last.text \in SignatureTexts \cup PermissionTexts
        /\ last.output.kind = "diagnostic"
                <=> (last.text # <<>> /\ CREDENTIAL_PATTERNS(last.text))
        /\ DiagnosticWellFormed

\* C29 witness: a 401 text was scanned for a worker that was passed a system
\* variable, a credential and a declared extra: the diagnostic lists the two.
DiagnosticIffSignatureWitness ==
    /\ topology = "detect" /\ last.op = "detect"
    /\ last.text = <<"HTTP", "401", "Unauthorized">>
    /\ DOMAIN builtEnv = {"PATH", "ANTHROPIC_API_KEY", "NPM_TOKEN"}
    /\ last.output.kind = "diagnostic" /\ last.output.name = "scout"
    /\ last.output.listed = {"ANTHROPIC_API_KEY", "NPM_TOKEN"}

(***************************************************************************)
(* Properties of the PersonaLoader (agent-loader.ts)                       *)
(***************************************************************************)
\* entry i of the listing is a file the scan loads
Listed(i) == dirFiles[i].file.ext = ".md"

\* onWarning was called with an error-severity finding for the file
ErrorReported(file) ==
    \E r \in DOMAIN returned.reported :
        /\ returned.reported[r].file = file
        /\ returned.reported[r].warning.severity = "error"

\* entry i of the listing is a file that loaded without an error
LoadedClean(i) == Listed(i) /\ ~ErrorReported(dirFiles[i].file)

\* the key a scan files entry i under
KeyOf(i) == ToLowerCase(NameOf(dirFiles[i]))

\* the file of some entry of the returned map
InMap(file) == \E k \in DOMAIN returned.agents : returned.agents[k].file = file

\* C16: after a scan, no file an error was reported for is in the returned
\* map, and every other persona file still has an entry under its key, whose
\* file is one that loaded without an error.
ErrorFilesSkipped ==
    last.op = "scan" =>
        \A i \in DOMAIN dirFiles : Listed(i) =>
            IF ErrorReported(dirFiles[i].file)
            THEN ~InMap(dirFiles[i].file)
            ELSE /\ KeyOf(i) \in DOMAIN returned.agents
                 /\ ~ErrorReported(returned.agents[KeyOf(i)].file)

\* a scan met a file with an error before a valid persona file, and returned
\* the valid one
ErrorFilesSkippedWitness ==
    /\ last.op = "scan"
    /\ \E i, j \in DOMAIN dirFiles :
          /\ i < j
          /\ Listed(i) /\ ErrorReported(dirFiles[i].file)
          /\ LoadedClean(j) /\ InMap(dirFiles[j].file)

\* entry i is the first of the listing that loaded without an error under key k
FirstUnder(i, k) ==
    /\ LoadedClean(i) /\ KeyOf(i) = k
    /\ \A j \in 1 .. (i - 1) : ~(LoadedClean(j) /\ KeyOf(j) = k)

\* C17: after a scan, every key of the map is the lower-cased name of its
\* entry, and the entry for a persona file that loaded without an error is the
\* first such file of the listing with that name, ignoring case.
FirstDuplicateWins ==
    last.op = "scan" =>
        /\ \A k \in DOMAIN returned.agents :
              k = ToLowerCase(returned.agents[k].name)
        /\ \A i \in DOMAIN dirFiles : LoadedClean(i) =>
              /\ KeyOf(i) \in DOMAIN returned.agents
              /\ \E j \in DOMAIN dirFiles :
                    /\ FirstUnder(j, KeyOf(i))
                    /\ returned.agents[KeyOf(i)] = AgentOf(dirFiles[j])

\* a scan loaded two files whose names differ only in case
FirstDuplicateWinsWitness ==
    /\ last.op = "scan"
    /\ \E i, j \in DOMAIN dirFiles :
          /\ i < j
          /\ LoadedClean(i) /\ LoadedClean(j)
          /\ KeyOf(i) = KeyOf(j)
          /\ NameOf(dirFiles[i]) # NameOf(dirFiles[j])
          /\ returned.agents[KeyOf(j)].name = NameOf(dirFiles[i])

\* entry i of the listing is a file loadAgentFile validates
Validated(i) == Listed(i) /\ dirFiles[i].readable /\ dirFiles[i].frontmatter

\* the name holds a character that is not a letter, a digit, ".", "_" or "-"
OutsideCharset(name) == \E c \in DOMAIN name : name[c] \notin NameChars

\* the instruction body is longer than the cap
Oversized(i) == Trim(dirFiles[i].body).length > MAX_SYSTEM_PROMPT_LENGTH

\* findings about unknown tools and suspicious patterns are all warnings, and
\* a file without an error finding is returned
WarningsOnly(i) ==
    /\ \A r \in DOMAIN returned.reported :
          LET w == returned.reported[r].warning IN
          (/\ returned.reported[r].file = dirFiles[i].file
           /\ \/ w.field = "tools"
              \/ w.field = "systemPrompt" /\ w.message \in Range(SUSPICIOUS_PATTERNS))
          => w.severity = "warning"
    /\ ~ErrorReported(dirFiles[i].file) => KeyOf(i) \in DOMAIN returned.agents

OneChunk(who, s) ==
    LET lines == Split(s)
        st == ForLines(who, [textChunks |-> <<>>, toolCount |-> 0], lines, 1)
    IN  IF who = "dispatcher" THEN TeamFinal(st, lines[Len(lines)])
                              ELSE ProcessLine(st, lines[Len(lines)])

\* the chunks of the output text that came from stdout
FromStdout == SelectSeq(textChunks, LAMBDA c : c # StderrChunk)

\* C19: at exit, the text decoded from stdout and the tool count are what one
\* single chunk holding the whole stream gives, however the stream was cut.
ChunkingIrrelevant ==
    (topology = "stream" /\ last.op = "close") =>
        /\ Join(FromStdout) = Join(OneChunk(parser, stdout).textChunks)
        /\ toolCount = OneChunk(parser, stdout).toolCount

\* the line is a well-formed text-delta record
IsTextDelta(line) ==
    JsonParse(line).type = "message_update" /\ JsonParse(line).deltaType = "text_delta"

\* the line is a well-formed tool-started record
IsToolStart(line) == JsonParse(line).type = "tool_execution_start"

\* a worker that wrote two or more records, each well formed, has exited, and
\* some chunk ended inside a record
ChunkingIrrelevantWitness ==
    /\ topology = "stream"
    /\ last.op = "close"
    /\ last.outcome = "split"
    /\ Len(Split(stdout)) >= 2
    /\ \A i \in DOMAIN Split(stdout) :
          IsTextDelta(Split(stdout)[i]) \/ IsToolStart(Split(stdout)[i])
    /\ textChunks # <<>>
    /\ toolCount > 0

\* the payloads of the well-formed text-delta records of the stream, in order
DeltaPayloads ==
    LET records == SelectSeq(Split(stdout), IsTextDelta)
    IN  [i \in 1 .. Len(records) |-> JsonParse(records[i]).delta]

\* C20: at exit, the output text is the concatenation of the payloads of the
\* well-formed text-delta records of stdout and nothing else, and the tool
\* count is the number of well-formed tool-started records, the last line
\* counted whether or not a newline follows it.
ParsesEveryRecord ==
    (topology = "stream" /\ last.op = "close") =>
        /\ Join(textChunks) = Join(DeltaPayloads)
        /\ toolCount = Len(SelectSeq(Split(stdout), IsToolStart))

(***************************************************************************)
(* Properties of every topology                                            *)
(***************************************************************************)
\* C8: every subprocess spawned so far was given the environment
\* buildSubprocessEnv makes for its model; the personas declare no extras.
WorkersGetMinimalEnv ==
    \A i \in DOMAIN procs :
        procs[i].env = BuildSubprocessEnv(procs[i].model, <<>>, OrchestratorEnv)

\* C28: every variable that the env frontmatter field of a persona names and
\* that the environment of the orchestrator holds is in the environment of
\* every subprocess spawned for that persona.
DeclaredVariablesReachWorkers ==
    (topology \in {"dispatcher", "pipeline"}) =>
        \A i \in DOMAIN procs :
            \A k \in DOMAIN PersonaEnvField(procs[i].agent) :
                LET name == PersonaEnvField(procs[i].agent)[k]
                IN  (name \notin Separators /\ name \in DOMAIN OrchestratorEnv)
                        => name \in DOMAIN procs[i].env

\* C30: in every topology, when a worker has exited with a code other than 0
\* and its combined output matches a credential pattern, the close handler
\* has produced a credential diagnostic; after an exit with code 0 it has
\* produced none.
CredentialFailureSurfaced ==
    (topology \in {"dispatcher", "pipeline", "pool"} /\ last.op = "close") =>
        /\ (last.code # "0" /\ CREDENTIAL_PATTERNS(last.text))
                => last.output.kind = "diagnostic"
        /\ last.code = "0" => last.output.kind # "diagnostic"

\* the state is the one a session start or a chain switch has just left, with
\* a run suspended at its await: that run started before the reset
ResetDuringRun ==
    /\ \/ last.op = "session_start"
       \/ last.op = "chain" /\ last.outcome = "activated"
    /\ run.pc = "await"

\* the subprocess of the event in this step belongs to the time before the
\* last reset
EventOfEarlierSession ==
    /\ last'.op \in {"close", "error"}
    /\ CASE topology = "dispatcher" -> procs[last'.proc].gen < teamGen
         [] topology = "pipeline" ->
                ResetDuringRun /\ procs[last'.proc].run = run.id
         [] topology = "pool" ->
                \A id \in PoolIds : agents[id] # procs[last'.proc].obj
         [] OTHER -> FALSE

\* C31: an event of a subprocess spawned before the last session start,
\* roster activation, chain switch or pool clear, and the continuation of a
\* pipeline run started before it, change no worker state, step state or
\* session handle that exists since that reset.
NoEventCrossesReset ==
    [][ EventOfEarlierSession =>
            /\ \A a \in AgentDefs :
                    agentStates'[<<a, teamGen>>] = agentStates[<<a, teamGen>>]
            /\ stepStates' = stepStates
            /\ agentSessions' = agentSessions
            /\ \A id \in PoolIds :
                    agents[id] # 0 => subStates'[agents[id]] = subStates[agents[id]]
      ]_vars

\* subprocess p was spawned for step p.step of pipeline definition c: the
\* worker is that step's and the prompt is that step's template with its
\* placeholders replaced
FromDefinition(p, c) ==
    /\ p.step <= Len(Chains[c].steps)
    /\ LET step == Chains[c].steps[p.step]
       IN  /\ p.agent = ToLower(step.agent)
           /\ Len(p.prompt) = Len(step.prompt)
           /\ \A k \in DOMAIN step.prompt :
                    step.prompt[k] \notin {"$INPUT", "$ORIGINAL"}
                        => p.prompt[k] = step.prompt[k]

\* C32: all steps spawned during one run are steps of one pipeline
\* definition, the one the run started with, and a run that resolved with
\* success has run that definition to its last step, whatever chain was
\* activated while a step was in flight.
RunKeepsItsDefinition ==
    topology = "pipeline" =>
        \A r \in 1 .. MaxRuns :
            LET ps == {procs[j] : j \in {k \in DOMAIN procs : procs[k].run = r}}
            IN  ps # {} =>
                    \E c \in DOMAIN Chains :
                        /\ \A p \in ps : FromDefinition(p, c)
                        /\ (run.id = r /\ run.pc = "resolved" /\ run.success)
                                => \E p \in ps : p.step = Len(Chains[c].steps)

\* C33: when every subprocess that was started exits or reports its failed
\* start, every worker state and every pipeline step that is running stops
\* being running, and every pipeline run that is under way resolves.
RunningEnds ==
    /\ \A o \in ObjIds :
            (agentStates[o].status = "running") ~> (agentStates[o].status # "running")
    /\ \A k \in 1 .. 3 :
            (k \in DOMAIN stepStates /\ stepStates[k].status = "running")
                ~> ~(k \in DOMAIN stepStates /\ stepStates[k].status = "running")
    /\ (run.pc \in {"await", "rejected"}) ~> (run.pc = "resolved")

\* the same for the workers and runs whose subprocess was created
RunningWithSubprocessEnds ==
    /\ \A o \in ObjIds :
            (agentStates[o].status = "running" /\ Captured(o))
                ~> (agentStates[o].status # "running")
    /\ (run.pc = "await") ~> (run.pc # "await")

\* the statuses are d done steps, then at most one step that is running or
\* error, then pending steps only
PrefixShape(ss) ==
    \E d \in 0 .. Len(ss) :
        /\ \A k \in 1 .. d : ss[k].status = "done"
        /\ \A k \in d + 2 .. Len(ss) : ss[k].status = "pending"

\* C35: a run starts from step states that are all pending, so right after
\* the call only the first step can be other than pending; and the statuses
\* are always a prefix of done steps, at most one running or error step, and
\* pending steps after it.
StepStatusesArePrefix ==
    /\ [](topology = "pipeline" => PrefixShape(stepStates))
    /\ [][ (topology = "pipeline" /\ last'.op = "run_chain" /\ activeChain # 0) =>
                /\ Len(stepStates') = Len(Chains[activeChain].steps)
                /\ \A k \in 2 .. Len(stepStates') : stepStates'[k].status = "pending"
                /\ stepStates'[1].status \in {"running", "error"}
         ]_vars

SpawnFailureResolves ==
    [][ topology = "dispatcher" =>
            /\ last'.op = "error" =>
                LET p == procs[last'.proc] IN
                /\ procs'[last'.proc].result = Result("1", "Error spawning agent")
                /\ agentStates'[<<p.agent, p.gen>>].status = "error"
            /\ (last'.op = "dispatch" /\ spawnCalls' = spawnCalls + 1
                    /\ SpawnThrows(agentStates'[<<last'.key, teamGen>>].task)) =>
                /\ last'.outcome # "threw"
                /\ last'.exitCode # "0"
                /\ agentStates'[<<last'.key, teamGen>>].status = "error"
      ]_vars

(***************************************************************************)
(* TillDone properties                                                     *)
(***************************************************************************)
\* the task list, by value
List == TaskValues(taskObjs, arrays[tasks])

InProgress == {k \in DOMAIN List : List[k].status = "inprogress"}

\* C37: a call of a tool other than tilldone is allowed exactly when some
\* task is in progress, so it is blocked when there are no tasks, when every
\* task is done and when none is in progress; a tilldone call is never
\* blocked.
GateAllowsIffInProgress ==
    (topology = "tilldone" /\ last.op = "tool_call") =>
        /\ last.outcome \in {"allowed", "blocked"}
        /\ last.key = "tilldone" => last.outcome = "allowed"
        /\ last.key # "tilldone" =>
              /\ last.outcome = "allowed" <=> InProgress # {}
              /\ Len(List) = 0 => last.outcome = "blocked"
              /\ (\A k \in DOMAIN List : List[k].status = "done") =>
                    last.outcome = "blocked"

GateAllowsIffInProgressWitness ==
    /\ topology = "tilldone"
    /\ last.op = "tool_call" /\ last.key = "bash" /\ last.outcome = "blocked"
    /\ \E k \in DOMAIN List : List[k].status = "done"
    /\ \E k \in DOMAIN List : List[k].status = "idle"

\* the position of the task with this id in a list, 0 if none
PositionOf(list, id) ==
    IF \E k \in DOMAIN list : list[k].id = id
    THEN CHOOSE k \in DOMAIN list : list[k].id = id /\ \A j \in 1 .. (k - 1) : list[j].id # id
    ELSE 0

ReconstructionIsFaithful ==
    (topology = "tilldone" /\ last.op = "reconstruct" /\ last.proc > 0) =>
        LET produced == entries[last.proc].produced IN
        /\ List = produced.tasks
        /\ taskNextId = produced.nextId
        /\ listTitle = produced.listTitle

Incomplete == \E k \in DOMAIN List : List[k].status # "done"

\* C40: between two consecutive input events at most one nudge is sent,
\* however often the agent ends in between; an agent_end with a task that
\* is not done sends the nudge unless one was sent since the last input, and
\* an agent_end with every task done, or with no task, sends none.
NudgeOncePerInput ==
    /\ [](topology = "tilldone" => nudges <= 1)
    /\ [][ (topology = "tilldone" /\ last'.op = "agent_end") =>
             /\ Incomplete => nudges' = 1
             /\ ~Incomplete => nudges' = nudges
             /\ (last'.outcome = "nudge") <=> (nudges' = nudges + 1)
       ]_vars

NudgeOncePerInputWitness ==
    /\ topology = "tilldone"
    /\ last.op = "agent_end" /\ last.outcome = ""
    /\ Incomplete
    /\ nudges = 1

====
